---------------------------- MODULE Spec2Model ----------------------------
(***************************************************************************)
(* A model of the limit order book of orderbook-rust: the FIFO price level *)
(* (src/src/queue_fifo.rs), the order book engine that owns two ladders of *)
(* such levels, and the market simulator that drives it (src/src/sim.rs).  *)
(*                                                                         *)
(* The specifications of the module:                                       *)
(*   SpecLevel  one FifoLevel under enqueue / match_against / cancel       *)
(*   SpecBook   one order book under place / cancel / modify               *)
(*   SpecRuns   two simulators built alike, each under step                *)
(*   SpecSim    one simulator under step / place_order                     *)
(*   SpecReset  one simulator run, reset and run again                     *)
(*   SpecServer the step loop of the server and the commands of clients    *)
(*   SpecCsv    one CSV data source under next_event, seek_to_time, reset  *)
(*   SpecPlayback one CSV data source under next_event and playback speed  *)
(*   SpecDriver the step loop of the server followed over many ticks       *)
(*   SpecShutdown the step loop and the abort of its task                  *)
(* Each one leaves the variables of the others at their initial value.     *)
(***************************************************************************)
EXTENDS Integers, Sequences, FiniteSets, TLC

VARIABLES
    wall,       \* the wall clock now_ns() reads
    lvl,        \* SpecLevel: the FifoLevel under test
    before,     \* SpecLevel: history, <<a, b>> when a was stored at the time b was enqueued
    lvlLast,    \* SpecLevel: history, the last call on the level and what it returned
    book,       \* SpecBook: the order book (bids, asks, index)
    last,       \* SpecBook: history, the last engine call and what it returned
    rt,         \* SpecBook: history, a place that rested untouched and its later cancel
    setup,      \* SpecRuns: the seed, configs, mode and data source both runs are built with
    sims,       \* SpecRuns: the two simulators
    outs,       \* SpecRuns: history, what each step of each run returned and its snapshot
    sim,        \* SpecSim, SpecReset: the simulator
    did,        \* SpecSim: history, the last call on the simulator and what it returned
    ran,        \* SpecReset: history, the trades of the run before reset() and of the one after
    srv,        \* SpecServer: the simulator behind the server's lock, and the step loop
    csv,        \* SpecCsv: the CSV data source
    got,        \* SpecCsv: history, the last call on the data source and what it returned
    tasks,      \* SpecLocks: each task's position, the guards it holds, each lock's waiters
    cb          \* SpecBuffer: the CircularBuffer, and the history of the items pushed

vars == <<wall, lvl, before, lvlLast, book, last, rt, setup, sims, outs, sim, did, ran, srv,
          csv, got, tasks, cb>>

-----------------------------------------------------------------------------
(* Bounds of the model *)

\* largest wall-clock reading
MaxWall == 1
\* order ids are 1..MaxId
MaxId == 3
\* order quantities are 0..MaxQty (0 is the invalid quantity)
MaxQty == 2
\* limit prices are 0..MaxPrice (0 is the invalid price)
MaxPrice == 2
\* order timestamps given by the caller are 0..MaxTs
MaxTs == 1

Ids == 1..MaxId
Sides == {"Buy", "Sell"}

\* types.rs Side::opposite
opposite(side) == IF side = "Buy" THEN "Sell" ELSE "Buy"

\* types.rs OrderType
Limit(p) == [kind |-> "Limit", price |-> p]
Market == [kind |-> "Market"]

\* types.rs Order::new_limit / Order::new_market
new_limit(id, side, qty, price, ts) ==
    [id |-> id, side |-> side, qty |-> qty, order_type |-> Limit(price), ts |-> ts]
new_market(id, side, qty, ts) ==
    [id |-> id, side |-> side, qty |-> qty, order_type |-> Market, ts |-> ts]

is_limit(o) == o.order_type.kind = "Limit"
is_market(o) == o.order_type.kind = "Market"

\* time.rs now_ns: the wall clock, read
now_ns == wall

Min(a, b) == IF a <= b THEN a ELSE b

RECURSIVE SumQty(_)
SumQty(s) == IF s = <<>> THEN 0 ELSE Head(s).qty + SumQty(Tail(s))

-----------------------------------------------------------------------------
(* FifoLevel, queue_fifo.rs *)

\* FifoLevel::new
FifoLevel_new(now) == [orders |-> <<>>, total_qty |-> 0, last_activity_ts |-> now]

\* FifoLevel::touch
touch(l, now) == [l EXCEPT !.last_activity_ts = now]

\* The mutant of enqueue: the order is pushed at the front of the queue.
enqueue_front(l, order, now) ==
    touch([l EXCEPT !.total_qty = @ + order.qty, !.orders = <<order>> \o @], now)

\* FifoLevel::enqueue: total_qty += qty; push_back; touch
enqueue(l, order, now) ==
    touch([l EXCEPT !.total_qty = @ + order.qty, !.orders = Append(@, order)], now)

\* FifoLevel::with_order
with_order(order, now) == enqueue(FifoLevel_new(now), order, now)

\* The while loop of FifoLevel::match_against: one iteration per call, on the front
\* order; s is [orders, total_qty, taker_qty, trades].
RECURSIVE MatchLoop(_, _, _, _)
MatchLoop(s, taker_id, price, trade_ts) ==
    IF s.taker_qty > 0 /\ s.orders /= <<>>
    THEN LET maker_order == Head(s.orders)
             trade_qty == Min(s.taker_qty, maker_order.qty)
             trade == [maker_id |-> maker_order.id, taker_id |-> taker_id,
                       price |-> price, qty |-> trade_qty, ts |-> trade_ts]
             left == maker_order.qty - trade_qty
         IN MatchLoop([orders |-> IF left = 0 THEN Tail(s.orders)
                                  ELSE <<[maker_order EXCEPT !.qty = left]>> \o Tail(s.orders),
                       total_qty |-> s.total_qty - trade_qty,
                       taker_qty |-> s.taker_qty - trade_qty,
                       trades |-> Append(s.trades, trade)],
                      taker_id, price, trade_ts)
    ELSE s

\* The mutant of match_against: every trade is for the maker's whole quantity, the
\* taker's own quantity is not taken as the cap.
RECURSIVE MatchLoopNoMin(_, _, _, _)
MatchLoopNoMin(s, taker_id, price, trade_ts) ==
    IF s.taker_qty > 0 /\ s.orders /= <<>>
    THEN LET maker_order == Head(s.orders)
             trade == [maker_id |-> maker_order.id, taker_id |-> taker_id,
                       price |-> price, qty |-> maker_order.qty, ts |-> trade_ts]
             taken == Min(s.taker_qty, maker_order.qty)
         IN MatchLoopNoMin([orders |-> Tail(s.orders),
                            total_qty |-> s.total_qty - maker_order.qty,
                            taker_qty |-> s.taker_qty - taken,
                            trades |-> Append(s.trades, trade)],
                           taker_id, price, trade_ts)
    ELSE s

match_against_nomin(l, taker_id, taker_side, taker_qty, price, now) ==
    LET r == MatchLoopNoMin([orders |-> l.orders, total_qty |-> l.total_qty,
                             taker_qty |-> taker_qty, trades |-> <<>>],
                            taker_id, price, now)
    IN [level |-> touch([l EXCEPT !.orders = r.orders, !.total_qty = r.total_qty], now),
        remaining |-> r.taker_qty, trades |-> r.trades]

\* The mutant of match_against: the level is left as it was and nothing is matched.
match_against_noop(l, taker_id, taker_side, taker_qty, price, now) ==
    [level |-> touch(l, now), remaining |-> taker_qty, trades |-> <<>>]

\* FifoLevel::match_against: (remaining taker qty, trades), and the level after it
match_against(l, taker_id, taker_side, taker_qty, price, now) ==
    LET r == MatchLoop([orders |-> l.orders, total_qty |-> l.total_qty,
                        taker_qty |-> taker_qty, trades |-> <<>>],
                       taker_id, price, now)
    IN [level |-> touch([l EXCEPT !.orders = r.orders, !.total_qty = r.total_qty], now),
        remaining |-> r.taker_qty, trades |-> r.trades]

\* The index of the first stored order with this id, 0 when there is none
\* (the for loop of FifoLevel::cancel).
FirstIndex(orders, order_id) ==
    LET hits == {i \in 1..Len(orders) : orders[i].id = order_id}
    IN IF hits = {} THEN 0 ELSE CHOOSE i \in hits : \A j \in hits : i <= j

RemoveAt(s, i) == SubSeq(s, 1, i - 1) \o SubSeq(s, i + 1, Len(s))

\* The mutant of cancel: the order is taken out, total_qty is not lowered.
cancel_keeps_total(l, order_id, now) ==
    LET i == FirstIndex(l.orders, order_id)
    IN IF i = 0 THEN [level |-> l, qty |-> 0]
       ELSE [level |-> touch([l EXCEPT !.orders = RemoveAt(@, i)], now),
             qty |-> l.orders[i].qty]

\* The mutant of cancel: the quantity is returned and booked, the order stays stored.
cancel_keeps_order(l, order_id, now) ==
    LET i == FirstIndex(l.orders, order_id)
    IN IF i = 0 THEN [level |-> l, qty |-> 0]
       ELSE [level |-> touch([l EXCEPT !.total_qty = @ - l.orders[i].qty], now),
             qty |-> l.orders[i].qty]

\* The mutant of cancel: the last stored order is moved into the hole (swap_remove).
cancel_swap_remove(l, order_id, now) ==
    LET i == FirstIndex(l.orders, order_id)
        n == Len(l.orders)
    IN IF i = 0 THEN [level |-> l, qty |-> 0]
       ELSE [level |-> touch([l EXCEPT
                                 !.orders = IF i = n THEN SubSeq(@, 1, n - 1)
                                            ELSE SubSeq(@, 1, i - 1) \o <<@[n]>>
                                                 \o SubSeq(@, i + 1, n - 1),
                                 !.total_qty = @ - l.orders[i].qty], now),
             qty |-> l.orders[i].qty]

\* The mutant of cancel: an id that is not stored takes the front order out.
cancel_absent_front(l, order_id, now) ==
    LET i == FirstIndex(l.orders, order_id)
    IN IF i = 0
       THEN [level |-> IF l.orders = <<>> THEN l
                       ELSE [l EXCEPT !.orders = Tail(@), !.total_qty = @ - l.orders[1].qty],
             qty |-> 0]
       ELSE [level |-> touch([l EXCEPT !.orders = RemoveAt(@, i),
                                       !.total_qty = @ - l.orders[i].qty], now),
             qty |-> l.orders[i].qty]

\* FifoLevel::cancel: the cancelled quantity (0 when the id is not stored), and the
\* level after it
cancel(l, order_id, now) ==
    LET i == FirstIndex(l.orders, order_id)
    IN IF i = 0 THEN [level |-> l, qty |-> 0]
       ELSE [level |-> touch([l EXCEPT !.orders = RemoveAt(@, i),
                                       !.total_qty = @ - l.orders[i].qty], now),
             qty |-> l.orders[i].qty]

\* FifoLevel observers
total_qty(l) == l.total_qty
\* The mutant of is_empty: the test is negated.
is_empty_inverted(l) == l.orders /= <<>>
is_empty(l) == l.orders = <<>>
last_ts(l) == l.last_activity_ts
order_count(l) == Len(l.orders)
\* Option<u128>: <<>> is None, <<ts>> is Some(ts)
oldest_order_ts(l) == IF l.orders = <<>> THEN <<>> ELSE <<Head(l.orders).ts>>

-----------------------------------------------------------------------------
(* The order book engine.  Two ladders of FifoLevel keyed by price, and the   *)
(* index id -> (side, price).  Its source file is not among the sources; the  *)
(* operations below follow the component design of the specification, over    *)
(* the FifoLevel operators above.                                             *)

\* Option values: <<>> is None, <<v>> is Some(v)
None == <<>>
Some(v) == <<v>>
is_some(o) == o /= <<>>
unwrap(o) == o[1]

EmptyMap == [x \in {} |-> 0]
Put(f, k, v) == [x \in (DOMAIN f) \cup {k} |-> IF x = k THEN v ELSE f[x]]
Drop(f, ks) == [x \in (DOMAIN f) \ ks |-> f[x]]

MaxOf(S) == CHOOSE x \in S : \A y \in S : y <= x
MinOf(S) == CHOOSE x \in S : \A y \in S : x <= y

\* OrderBook::new
OrderBook_new == [bids |-> EmptyMap, asks |-> EmptyMap, index |-> EmptyMap]

ladder(b, side) == IF side = "Buy" THEN b.bids ELSE b.asks
with_ladder(b, side, l) == IF side = "Buy" THEN [b EXCEPT !.bids = l] ELSE [b EXCEPT !.asks = l]

\* The head of a ladder: the highest bid, the lowest ask
best_price(b, side) ==
    LET l == ladder(b, side)
    IN IF DOMAIN l = {} THEN None
       ELSE IF side = "Buy" THEN Some(MaxOf(DOMAIN l)) ELSE Some(MinOf(DOMAIN l))

best_bid(b) == best_price(b, "Buy")
best_ask(b) == best_price(b, "Sell")

\* spread in ticks, None unless both tops exist
spread(b) ==
    IF is_some(best_bid(b)) /\ is_some(best_ask(b))
    THEN Some(unwrap(best_ask(b)) - unwrap(best_bid(b))) ELSE None

\* The crossing condition of the matching phase: a limit buy at P takes sells at a
\* price <= P, a limit sell at P takes buys at a price >= P, a market order any.
crosses(order, p) ==
    \/ is_market(order)
    \/ order.side = "Buy" /\ p <= order.order_type.price
    \/ order.side = "Sell" /\ p >= order.order_type.price

IdsOf(orders) == {orders[i].id : i \in 1..Len(orders)}

\* The matching phase of place: levels of the opposite ladder are entered best price
\* first; a level emptied by matching is removed from the ladder, and the makers it
\* held from the index, before the next level is looked at.
RECURSIVE sweep(_, _, _, _, _)
sweep(b, order, remaining, trades, now) ==
    LET side == opposite(order.side)
        opp == ladder(b, side)
        top == best_price(b, side)
    IN IF remaining = 0 \/ ~is_some(top) \/ ~crosses(order, unwrap(top))
       THEN [book |-> b, remaining |-> remaining, trades |-> trades]
       ELSE LET p == unwrap(top)
                r == match_against(opp[p], order.id, order.side, remaining, p, now)
                gone == IdsOf(opp[p].orders) \ IdsOf(r.level.orders)
                opp2 == IF is_empty(r.level) THEN Drop(opp, {p}) ELSE Put(opp, p, r.level)
                b2 == [with_ladder(b, side, opp2) EXCEPT !.index = Drop(@, gone)]
            IN IF is_empty(r.level)
               THEN sweep(b2, order, r.remaining, trades \o r.trades, now)
               ELSE [book |-> b2, remaining |-> r.remaining, trades |-> trades \o r.trades]

\* The resting phase of place: the residual of a limit order joins the level of its
\* price on its own side (created when absent) and is entered in the index.
rest(b, order, remaining, now) ==
    LET p == order.order_type.price
        own == ladder(b, order.side)
        o == [order EXCEPT !.qty = remaining]
        lv == IF p \in DOMAIN own THEN enqueue(own[p], o, now) ELSE with_order(o, now)
    IN [with_ladder(b, order.side, Put(own, p, lv))
            EXCEPT !.index = Put(@, order.id, [side |-> order.side, price |-> p])]

\* The mutant of validate: an id that is already resting is let through.
validate_no_id_check(b, order) ==
    IF order.qty = 0 THEN "InvalidQty"
    ELSE IF is_limit(order) /\ order.order_type.price = 0 THEN "InvalidPrice"
    ELSE IF is_market(order) /\ DOMAIN ladder(b, opposite(order.side)) = {} THEN "NoLiquidity"
    ELSE ""

\* The validation phase of place: "" when the order is accepted
validate(b, order) ==
    IF order.qty = 0 THEN "InvalidQty"
    ELSE IF is_limit(order) /\ order.order_type.price = 0 THEN "InvalidPrice"
    ELSE IF order.id \in DOMAIN b.index THEN "Reject"
    ELSE IF is_market(order) /\ DOMAIN ladder(b, opposite(order.side)) = {} THEN "NoLiquidity"
    ELSE ""

\* OrderBookEngine::place: validate, match, rest
place(b, order, now) ==
    LET err == validate(b, order)
    IN IF err /= "" THEN [book |-> b, trades |-> <<>>, err |-> err]
       ELSE LET m == sweep(b, order, order.qty, <<>>, now)
            IN [book |-> IF is_limit(order) /\ m.remaining > 0
                         THEN rest(m.book, order, m.remaining, now) ELSE m.book,
                trades |-> m.trades, err |-> ""]

\* OrderBookEngine::cancel: index lookup, the level's cancel, index entry dropped,
\* level removed when empty; UnknownOrder when the id is not in the index
engine_cancel(b, order_id, now) ==
    IF order_id \notin DOMAIN b.index
    THEN [book |-> b, qty |-> 0, err |-> "UnknownOrder"]
    ELSE LET e == b.index[order_id]
             own == ladder(b, e.side)
             r == cancel(own[e.price], order_id, now)
             own2 == IF is_empty(r.level) THEN Drop(own, {e.price})
                     ELSE Put(own, e.price, r.level)
         IN [book |-> [with_ladder(b, e.side, own2) EXCEPT !.index = Drop(@, {order_id})],
             qty |-> r.qty, err |-> ""]

\* The resting order with this id (the id is in the index)
resting(b, order_id) ==
    LET e == b.index[order_id]
        os == ladder(b, e.side)[e.price].orders
    IN os[FirstIndex(os, order_id)]

\* A strict size decrease done in place: the order keeps its position, its qty and
\* the level's total_qty are lowered.
shrink(b, order_id, new_qty) ==
    LET e == b.index[order_id]
        own == ladder(b, e.side)
        lv == own[e.price]
        i == FirstIndex(lv.orders, order_id)
        lv2 == [lv EXCEPT !.orders[i].qty = new_qty,
                          !.total_qty = @ - (lv.orders[i].qty - new_qty)]
    IN with_ladder(b, e.side, Put(own, e.price, lv2))

\* OrderBookEngine::modify(order_id, new_qty?, new_price?): a price change or a size
\* increase takes the order out and submits it again (cancel and replace: it is
\* matched at its new price and what is left joins the tail of the destination
\* level); a strict size decrease is done in place; UnknownOrder when the id is not
\* in the index.
modify(b, order_id, new_qty, new_price, now) ==
    IF order_id \notin DOMAIN b.index
    THEN [book |-> b, trades |-> <<>>, err |-> "UnknownOrder"]
    ELSE IF is_some(new_qty) /\ unwrap(new_qty) = 0
    THEN [book |-> b, trades |-> <<>>, err |-> "InvalidQty"]
    ELSE IF is_some(new_price) /\ unwrap(new_price) = 0
    THEN [book |-> b, trades |-> <<>>, err |-> "InvalidPrice"]
    ELSE LET o == resting(b, order_id)
             q == IF is_some(new_qty) THEN unwrap(new_qty) ELSE o.qty
             p == IF is_some(new_price) THEN unwrap(new_price) ELSE o.order_type.price
         IN IF p = o.order_type.price /\ q = o.qty
            THEN [book |-> b, trades |-> <<>>, err |-> ""]
            ELSE IF p = o.order_type.price /\ q < o.qty
            THEN [book |-> shrink(b, order_id, q), trades |-> <<>>, err |-> ""]
            ELSE place(engine_cancel(b, order_id, now).book,
                       new_limit(order_id, o.side, q, p, o.ts), now)

-----------------------------------------------------------------------------
(* The state after construction, and the passing of wall-clock time *)

NoOrder == new_market(0, "Buy", 0, 0)

LevelVars == <<lvl, before, lvlLast>>
BookVars == <<book, last, rt>>
RunVars == <<setup, sims, outs>>
SimVars == <<sim, did, ran>>
SrvVars == <<srv>>
CsvVars == <<csv, got>>
LockVars == <<tasks>>
BufVars == <<cb>>

\* no call is returning
LevelIdle == [op |-> "idle", id |-> 0, taker_qty |-> 0, remaining |-> 0,
              trades |-> <<>>, qty |-> 0]

LevelInit ==
    /\ lvl = FifoLevel_new(0)
    /\ before = {}
    /\ lvlLast = LevelIdle

NoRoundTrip == [stage |-> "none", order |-> NoOrder, book |-> OrderBook_new]

\* no call is returning
BookIdle == [op |-> "idle", order |-> NoOrder, id |-> 0, new_qty |-> None,
             new_price |-> None, err |-> "", trades |-> <<>>, qty |-> 0]

BookInit ==
    /\ book = OrderBook_new
    /\ last = BookIdle
    /\ rt = NoRoundTrip

\* nothing is configured and no simulator is built
NoSetup == <<>>
Unbuilt == <<>>
Runs == {1, 2}

RunsInit ==
    /\ setup = NoSetup
    /\ sims = [i \in Runs |-> Unbuilt]
    /\ outs = [i \in Runs |-> <<>>]

\* no call has been made on the simulator
\* was is the simulator the call was made on, fell whether a step has met a data
\* source error in Historical mode
NoCall ==
    [op |-> "none", n |-> 0, order |-> NoOrder, trades |-> <<>>, err |-> "", was |-> Unbuilt,
     fell |-> FALSE]
\* the trades of the run before reset() and of the run after it, and the steps of each
NotRun == [first |-> <<>>, steps |-> 0, reset |-> FALSE, second |-> <<>>, again |-> 0]

SimInit ==
    /\ sim = Unbuilt
    /\ did = NoCall
    /\ ran = NotRun

\* no message of a client has been handled: message is the last one handled, err
\* what handle_client_message returned for it
NotHeard == [n |-> 0, message |-> <<>>, err |-> ""]

\* the server before its simulator is built: the loop is about to step, nothing was
\* broadcast; log holds, for each step the loop made, whether it was Ok and whether
\* the recovery hook fired after it; the loop is followed for limit steps; shutdown
\* is set once abort() was called on the loop's task; caught and whole are history,
\* where the loop was when abort() was called and the simulator the step that was
\* begun last is to leave
SrvInit ==
    srv = [sim |-> Unbuilt, pc |-> "step", left |-> <<>>, sent |-> <<>>, ticks |-> 0,
           commands |-> 0, heard |-> NotHeard, consecutive_errors |-> 0, log |-> <<>>,
           limit |-> 0, shutdown |-> FALSE, caught |-> "", whole |-> Unbuilt]

\* no call has been made on the data source: at is the row a call read last, sought
\* the target of a seek that succeeded with no event returned since, before the call
\* made before the last one
NoRead == [op |-> "none", result |-> "", at |-> 0, sought |-> <<>>]
CsvInit ==
    /\ csv = Unbuilt
    /\ got = [op |-> "none", target |-> 0, result |-> "", at |-> 0, sought |-> <<>>,
               slept |-> 0, n |-> 0, was |-> Unbuilt, before |-> NoRead]

\* the two locks of AppState: the simulator gate and the health-metrics lock
Locks == {"simulator", "health_metrics"}

\* the tasks of SpecLocks: the driver loop and NumHandlers client command handlers
NumHandlers == 2
Handlers == 1..NumHandlers
Tasks == {0} \cup Handlers

\* an instruction of a task: it awaits something that is no lock, asks for a lock, or
\* lets the guard of a lock go (the end of the guard's scope); next holds the
\* positions the task may be at afterwards
Await(next) == [op |-> "await", lock |-> "", next |-> next]
Lock(lock, next) == [op |-> "lock", lock |-> lock, next |-> next]
Unlock(lock, next) == [op |-> "unlock", lock |-> lock, next |-> next]

\* The mutant of LoopCode: the guard of the step lives until the step is recorded
LoopCodeNested ==
    [p \in {"tick", "step", "stepped", "record", "recorded", "snapshot", "snapshot_taken",
            "broadcast", "broadcast_done", "health_log", "health_logged",
            "record_error", "error_recorded"} |->
        CASE p = "tick" -> Await({"step"})
          [] p = "step" -> Lock("simulator", {"record"})
          [] p = "stepped" -> Unlock("simulator", {"snapshot"})
          [] p = "record" -> Lock("health_metrics", {"recorded"})
          [] p = "recorded" -> Unlock("health_metrics", {"stepped"})
          [] p = "snapshot" -> Lock("simulator", {"snapshot_taken"})
          [] p = "snapshot_taken" -> Unlock("simulator", {"broadcast", "health_log"})
          [] p = "broadcast" -> Lock("health_metrics", {"broadcast_done"})
          [] p = "broadcast_done" -> Unlock("health_metrics", {"health_log"})
          [] p = "health_log" -> Lock("health_metrics", {"health_logged"})
          [] p = "health_logged" -> Unlock("health_metrics", {"tick"})
          [] p = "record_error" -> Lock("health_metrics", {"error_recorded"})
          [] p = "error_recorded" -> Unlock("health_metrics", {"tick"})]

\* start_simulation_loop, one iteration: the tick; the step under the simulator gate,
\* the guard gone at the end of its block; on Ok the step is recorded under the
\* health-metrics lock, the snapshot is taken under the simulator gate, broadcast
\* (the health-metrics lock is taken when a client receives it) and the periodic
\* health log is made under the health-metrics lock; on Err record_error takes the
\* health-metrics lock and the loop continues
LoopCode ==
    [p \in {"tick", "step", "stepped", "record", "recorded", "snapshot", "snapshot_taken",
            "broadcast", "broadcast_done", "health_log", "health_logged",
            "record_error", "error_recorded"} |->
        CASE p = "tick" -> Await({"step"})
          [] p = "step" -> Lock("simulator", {"stepped"})
          [] p = "stepped" -> Unlock("simulator", {"record", "record_error"})
          [] p = "record" -> Lock("health_metrics", {"recorded"})
          [] p = "recorded" -> Unlock("health_metrics", {"snapshot"})
          [] p = "snapshot" -> Lock("simulator", {"snapshot_taken"})
          [] p = "snapshot_taken" -> Unlock("simulator", {"broadcast", "health_log"})
          [] p = "broadcast" -> Lock("health_metrics", {"broadcast_done"})
          [] p = "broadcast_done" -> Unlock("health_metrics", {"health_log"})
          [] p = "health_log" -> Lock("health_metrics", {"health_logged"})
          [] p = "health_logged" -> Unlock("health_metrics", {"tick"})
          [] p = "record_error" -> Lock("health_metrics", {"error_recorded"})
          [] p = "error_recorded" -> Unlock("health_metrics", {"tick"})]

\* the incoming task of handle_websocket, one message: the message is counted under
\* the health-metrics lock; handle_client_message then takes the health-metrics lock
\* (get_health), the simulator gate (reset_metrics, place_test_order) or no lock; a
\* message that fails is recorded by record_error under the health-metrics lock
HandlerCode ==
    [p \in {"receive", "count", "counted", "get_health", "got_health", "reset_metrics",
            "metrics_reset", "place_test_order", "placed", "record_error",
            "error_recorded"} |->
        CASE p = "receive" -> Await({"count"})
          [] p = "count" -> Lock("health_metrics", {"counted"})
          [] p = "counted" -> Unlock("health_metrics",
                                     {"get_health", "reset_metrics", "place_test_order",
                                      "record_error", "receive"})
          [] p = "get_health" -> Lock("health_metrics", {"got_health"})
          [] p = "got_health" -> Unlock("health_metrics", {"receive"})
          [] p = "reset_metrics" -> Lock("simulator", {"metrics_reset"})
          [] p = "metrics_reset" -> Unlock("simulator", {"receive"})
          [] p = "place_test_order" -> Lock("simulator", {"placed"})
          [] p = "placed" -> Unlock("simulator", {"receive", "record_error"})
          [] p = "record_error" -> Lock("health_metrics", {"error_recorded"})
          [] p = "error_recorded" -> Unlock("health_metrics", {"receive"})]

\* the code of a task and the instruction it is at
Code(t) == IF t = 0 THEN LoopCode ELSE HandlerCode
Instr(t) == Code(t)[tasks.pc[t]]

\* no task has started: the loop is at its tick, every handler awaits a message, no
\* lock is held and no task waits
LockInit ==
    tasks = [pc |-> [t \in Tasks |-> IF t = 0 THEN "tick" ELSE "receive"],
             guards |-> [t \in Tasks |-> {}],
             waiters |-> [l \in Locks |-> <<>>]]

\* no buffer has been created: pushed is the history of the items pushed, the
\* oldest first
BufInit == cb = [buffer |-> Unbuilt, pushed |-> <<>>]

Init ==
    /\ wall = 0 /\ LevelInit /\ BookInit /\ RunsInit /\ SimInit /\ SrvInit /\ CsvInit
    /\ LockInit /\ BufInit

\* Wall-clock time passes between two calls.
Tick ==
    /\ wall < MaxWall
    /\ wall' = wall + 1
    /\ UNCHANGED <<LevelVars, BookVars, RunVars, SimVars, SrvVars, CsvVars, LockVars, BufVars>>

-----------------------------------------------------------------------------
(* SpecLevel: the calls on one FifoLevel.  The orders of a level are limit   *)
(* orders of one side with qty > 0 and ids that differ (the engine's         *)
(* validation), each with the ts its submitter gave it.                      *)

TakerQtys == 0..(2 * MaxQty)
\* the price of the level under test
LevelPrice == MaxPrice

\* A call is made when the one before it has returned to its caller: lvlLast holds
\* the call and its result until the caller has taken them.
Enqueue ==
    /\ lvlLast.op = "idle"
    /\ \E id \in Ids \ IdsOf(lvl.orders), qty \in 1..MaxQty, ts \in 0..MaxTs :
        /\ lvl' = enqueue(lvl, new_limit(id, "Buy", qty, LevelPrice, ts), now_ns)
        /\ before' = {pr \in before : pr[1] /= id /\ pr[2] /= id}
                        \cup {<<a, id>> : a \in IdsOf(lvl.orders)}
        /\ lvlLast' = [op |-> "enqueue", id |-> id, taker_qty |-> 0, remaining |-> 0,
                       trades |-> <<>>, qty |-> qty]
        /\ UNCHANGED <<wall, BookVars, RunVars, SimVars, SrvVars, CsvVars, LockVars, BufVars>>

MatchAgainst ==
    /\ lvlLast.op = "idle"
    /\ \E taker_id \in Ids, taker_qty \in TakerQtys :
        LET r == match_against(lvl, taker_id, "Sell", taker_qty, LevelPrice, now_ns)
        IN /\ lvl' = r.level
           /\ lvlLast' = [op |-> "match_against", id |-> taker_id, taker_qty |-> taker_qty,
                          remaining |-> r.remaining, trades |-> r.trades, qty |-> 0]
           /\ UNCHANGED <<wall, before, BookVars, RunVars, SimVars, SrvVars, CsvVars, LockVars, BufVars>>

Cancel ==
    /\ lvlLast.op = "idle"
    /\ \E order_id \in Ids :
        LET r == cancel(lvl, order_id, now_ns)
        IN /\ lvl' = r.level
           /\ lvlLast' = [op |-> "cancel", id |-> order_id, taker_qty |-> 0,
                          remaining |-> 0, trades |-> <<>>, qty |-> r.qty]
           /\ UNCHANGED <<wall, before, BookVars, RunVars, SimVars, SrvVars, CsvVars, LockVars, BufVars>>

LevelReturn ==
    /\ lvlLast.op /= "idle"
    /\ lvlLast' = LevelIdle
    /\ UNCHANGED <<wall, lvl, before, BookVars, RunVars, SimVars, SrvVars, CsvVars, LockVars, BufVars>>

NextLevel == Tick \/ Enqueue \/ MatchAgainst \/ Cancel \/ LevelReturn

SpecLevel == Init /\ [][NextLevel]_vars

-----------------------------------------------------------------------------
(* SpecBook: the calls on one order book *)

OrderTypes == {Market} \cup {Limit(p) : p \in 0..MaxPrice}

\* The orders a caller can submit; ts is the submitter's clock reading (server.rs
\* handle_test_order_placement stamps now_ns()).
Orders(ts) ==
    {[id |-> id, side |-> side, qty |-> qty, order_type |-> ot, ts |-> ts] :
        id \in Ids, side \in Sides, qty \in 0..MaxQty, ot \in OrderTypes}

\* A call is made when the one before it has returned to its caller: last holds the
\* call and its result until the caller has taken them.
Place ==
    /\ last.op = "idle"
    /\ \E order \in Orders(now_ns) :
        LET r == place(book, order, now_ns)
        IN /\ book' = r.book
           /\ last' = [op |-> "place", order |-> order, id |-> order.id, new_qty |-> None,
                       new_price |-> None, err |-> r.err, trades |-> r.trades, qty |-> 0]
           /\ rt' = IF r.err = "" /\ r.trades = <<>> /\ is_limit(order)
                    THEN [stage |-> "placed", order |-> order, book |-> book]
                    ELSE NoRoundTrip
           /\ UNCHANGED <<wall, LevelVars, RunVars, SimVars, SrvVars, CsvVars, LockVars, BufVars>>

EngineCancel ==
    /\ last.op = "idle"
    /\ \E order_id \in Ids :
        LET r == engine_cancel(book, order_id, now_ns)
        IN /\ book' = r.book
           /\ last' = [op |-> "cancel", order |-> NoOrder, id |-> order_id, new_qty |-> None,
                       new_price |-> None, err |-> r.err, trades |-> <<>>, qty |-> r.qty]
           /\ rt' = IF rt.stage = "placed" /\ rt.order.id = order_id
                    THEN [rt EXCEPT !.stage = "cancelled"]
                    ELSE IF rt.stage = "cancelled" /\ rt.order.id = order_id
                    THEN [rt EXCEPT !.stage = "cancelled again"]
                    ELSE NoRoundTrip
           /\ UNCHANGED <<wall, LevelVars, RunVars, SimVars, SrvVars, CsvVars, LockVars, BufVars>>

Options(S) == {None} \cup {Some(v) : v \in S}

Modify ==
    /\ last.op = "idle"
    /\ \E order_id \in Ids, new_qty \in Options(0..MaxQty), new_price \in Options(0..MaxPrice) :
        LET r == modify(book, order_id, new_qty, new_price, now_ns)
        IN /\ book' = r.book
           /\ last' = [op |-> "modify", order |-> NoOrder, id |-> order_id,
                       new_qty |-> new_qty, new_price |-> new_price, err |-> r.err,
                       trades |-> r.trades, qty |-> 0]
           /\ rt' = NoRoundTrip
           /\ UNCHANGED <<wall, LevelVars, RunVars, SimVars, SrvVars, CsvVars, LockVars, BufVars>>

BookReturn ==
    /\ last.op /= "idle"
    /\ last' = BookIdle
    /\ UNCHANGED <<wall, book, rt, LevelVars, RunVars, SimVars, SrvVars, CsvVars, LockVars, BufVars>>

\* The wall clock stands still in this specification: the engine reads it only to
\* stamp trades and levels (SpecLevel and SpecRuns let it run).
NextBook == Place \/ EngineCancel \/ Modify \/ BookReturn

SpecBook == Init /\ [][NextBook]_vars

-----------------------------------------------------------------------------
(* The simulator, src/src/sim.rs.  A probability is held in thousandths, and  *)
(* a draw of gen::<f64>() is a number of 0..999 compared with it.  An f64     *)
(* price is held by the number of ticks it stands for.                        *)

\* StdRng of the rand crate.  Its algorithm lies outside the repository; what the
\* simulator relies on is that a draw is a function of the seed and of the draws
\* made before it, which this congruential generator has in common with it.
seed_from_u64(seed) == seed
rng_next(r) == (75 * r + 74) % 65537
gen_f64(r) == rng_next(r) % 1000
gen_bool(r) == rng_next(r) % 2 = 1
gen_range(r, lo, hi) == lo + (rng_next(r) % (hi - lo + 1))

\* u64::saturating_sub
saturating_sub(a, b) == IF a > b THEN a - b ELSE 0

\* price_utils::from_f64 of the $100 base price of an empty market, in ticks
BasePrice == 1000000
\* the spread history keeps this many entries
SpreadHistoryCap == 400

\* EngineError::is_recoverable, for the errors the engine returns
is_recoverable(err) == err \in {"UnknownOrder", "Reject", "NoLiquidity"}

NetModel_default ==
    [base_latency_ns |-> 100000, jitter_ns |-> 50000, drop_prob |-> 1, reorder_prob |-> 10]

\* NetModel::simulate_latency: base latency plus a drawn jitter, floored at 0; no
\* draw is made when jitter_ns is 0
simulate_latency(net, r) ==
    LET drawn == net.jitter_ns > 0
        jitter == IF drawn THEN gen_range(r, 0 - net.jitter_ns, net.jitter_ns) ELSE 0
        v == net.base_latency_ns + jitter
    IN [latency |-> IF v > 0 THEN v ELSE 0, rng |-> IF drawn THEN rng_next(r) ELSE r]

\* NetModel::should_drop
should_drop(net, r) == [drop |-> gen_f64(r) < net.drop_prob, rng |-> rng_next(r)]

\* MarketMakerConfig::default; inventory_skew 0.001 is 10 ticks per unit of inventory
MarketMakerConfig_default ==
    [target_spread |-> 100, max_inventory |-> 1000, order_size |-> 100,
     mm_probability |-> 700, inventory_skew |-> 10]

\* OrderGenerationConfig::default
OrderGenerationConfig_default ==
    [market_order_prob |-> 300, mean_order_interval_ns |-> 1000000,
     min_order_size |-> 10, max_order_size |-> 500, price_range_fraction |-> 20]

\* Metrics::new
Metrics_new == [inventory |-> 0, cash |-> 0, pnl |-> 0]

\* Metrics::update_trade
update_trade(m, side, qty, price) ==
    IF side = "Buy"
    THEN [m EXCEPT !.inventory = @ + qty, !.cash = @ - (qty * price)]
    ELSE [m EXCEPT !.inventory = @ - qty, !.cash = @ + (qty * price)]

\* Metrics::calculate_pnl
calculate_pnl(m, mid_price_ticks) ==
    IF is_some(mid_price_ticks)
    THEN [m EXCEPT !.pnl = m.cash + (m.inventory * unwrap(mid_price_ticks))]
    ELSE [m EXCEPT !.pnl = m.cash]

\* OrderBookEngine::mid_price followed by price_utils::from_f64: the mean of the two
\* best prices rounded to a tick, half a tick rounding up
mid_ticks(b) ==
    IF is_some(best_bid(b)) /\ is_some(best_ask(b))
    THEN Some((unwrap(best_bid(b)) + unwrap(best_ask(b)) + 1) \div 2) ELSE None

\* price_utils::from_f64(mid_price * price_range_fraction)
range_ticks(b, fraction) ==
    (((unwrap(best_bid(b)) + unwrap(best_ask(b))) * fraction) + 1000) \div 2000

\* Simulator::with_seed
with_seed(engine, seed, now) ==
    [engine |-> engine, rng |-> seed_from_u64(seed), net |-> NetModel_default,
     metrics |-> Metrics_new, recent_spreads |-> <<>>, next_order_id |-> 1,
     current_time |-> now, data_source |-> None, mode |-> "Synthetic",
     market_maker_config |-> MarketMakerConfig_default,
     order_gen_config |-> OrderGenerationConfig_default]

with_network_model(s, net) == [s EXCEPT !.net = net]
with_market_maker_config(s, config) == [s EXCEPT !.market_maker_config = config]
with_order_generation_config(s, config) == [s EXCEPT !.order_gen_config = config]
\* a data source is the events it will yield and the place of the next one
with_data_source(s, events) ==
    [s EXCEPT !.data_source = Some([events |-> events, pos |-> 1]), !.mode = "Historical"]
set_mode(s, mode) == [s EXCEPT !.mode = mode]

\* The target prices of the market maker: around the mid when the book has one, else
\* around the base price; a long inventory lowers both, a short one leaves them
target_prices(mid, half_spread, adjustment_ticks) ==
    IF is_some(mid)
    THEN [bid |-> saturating_sub(saturating_sub(unwrap(mid), half_spread), adjustment_ticks),
          ask |-> saturating_sub(unwrap(mid) + half_spread, adjustment_ticks)]
    ELSE [bid |-> BasePrice - half_spread, ask |-> BasePrice + half_spread]

\* price_utils::from_f64 of inventory * inventory_skew as u64: a negative product is 0
adjustment_ticks(inventory, inventory_skew) ==
    IF inventory * inventory_skew > 0 THEN inventory * inventory_skew ELSE 0

\* the orders of the market maker once it is settled which sides to quote
quotes(s, place_bid, place_ask, target) ==
    IF place_bid /\ place_ask
    THEN <<new_limit(s.next_order_id, "Buy", s.market_maker_config.order_size,
                     target.bid, s.current_time),
           new_limit(s.next_order_id + 1, "Sell", s.market_maker_config.order_size,
                     target.ask, s.current_time)>>
    ELSE IF place_bid
    THEN <<new_limit(s.next_order_id, "Buy", s.market_maker_config.order_size,
                     target.bid, s.current_time)>>
    ELSE IF place_ask
    THEN <<new_limit(s.next_order_id, "Sell", s.market_maker_config.order_size,
                     target.ask, s.current_time)>>
    ELSE <<>>

\* The mutant of should_place: a side is quoted whether or not it improves the book
should_place_unimproved(s, bb, ba, target) ==
    [bid |-> /\ gen_f64(s.rng) < s.market_maker_config.mm_probability
             /\ s.metrics.inventory < s.market_maker_config.max_inventory
             /\ target.bid > 0,
     ask |-> /\ gen_f64(rng_next(s.rng)) < s.market_maker_config.mm_probability
             /\ s.metrics.inventory > 0 - s.market_maker_config.max_inventory
             /\ target.ask > 0]

\* the two probability draws of the market maker and the conditions joined to them
should_place(s, bb, ba, target) ==
    [bid |-> /\ gen_f64(s.rng) < s.market_maker_config.mm_probability
             /\ s.metrics.inventory < s.market_maker_config.max_inventory
             /\ (~is_some(bb) \/ unwrap(bb) < target.bid)
             /\ target.bid > 0,
     ask |-> /\ gen_f64(rng_next(s.rng)) < s.market_maker_config.mm_probability
             /\ s.metrics.inventory > 0 - s.market_maker_config.max_inventory
             /\ (~is_some(ba) \/ unwrap(ba) > target.ask)
             /\ target.ask > 0]

generated(s, orders) ==
    [sim |-> [s EXCEPT !.rng = rng_next(rng_next(@)), !.next_order_id = @ + Len(orders)],
     orders |-> orders]

quoted(s, should, target) == generated(s, quotes(s, should.bid, should.ask, target))

targeted(s, target) ==
    quoted(s, should_place(s, best_bid(s.engine), best_ask(s.engine), target), target)

\* Simulator::generate_market_making_orders: both probability draws are made whatever
\* the book holds; an order takes the next id only when it is generated
generate_market_making_orders(s) ==
    targeted(s, target_prices(mid_ticks(s.engine), s.market_maker_config.target_spread \div 2,
                              adjustment_ticks(s.metrics.inventory,
                                               s.market_maker_config.inventory_skew)))

\* the price of a limit order at a drawn offset from the mid: a buy below the mid
\* when the coin says so, a sell above it
offset_price(side, mid, price_offset, coin) ==
    IF (side = "Buy") = coin THEN saturating_sub(mid, price_offset) ELSE mid + price_offset

positive(price) == IF price > 0 THEN Some(price) ELSE None

\* Simulator::generate_limit_order_price: None, with no draw, when the book has no mid
generate_limit_order_price(s, side) ==
    IF ~is_some(mid_ticks(s.engine)) THEN [sim |-> s, price |-> None]
    ELSE [sim |-> [s EXCEPT !.rng = rng_next(rng_next(@))],
          price |-> positive(offset_price(
                        side, unwrap(mid_ticks(s.engine)),
                        gen_range(s.rng, 0,
                                  range_ticks(s.engine, s.order_gen_config.price_range_fraction)),
                        gen_bool(rng_next(s.rng))))]

\* the order of the taker once its price is drawn: none when no price came out
priced(g, id, side, qty, ts) ==
    IF ~is_some(g.price) THEN [sim |-> g.sim, order |-> <<>>]
    ELSE [sim |-> [g.sim EXCEPT !.next_order_id = @ + 1],
          order |-> <<new_limit(id, side, qty, unwrap(g.price), ts)>>]

\* the taker order of a drawn side and size: a market order, or a limit order at a
\* price drawn next; s has made the three draws of side, size and kind
taker_order(s, side, qty, is_market_order) ==
    IF is_market_order
    THEN [sim |-> [s EXCEPT !.next_order_id = @ + 1],
          order |-> <<new_market(s.next_order_id, side, qty, s.current_time)>>]
    ELSE priced(generate_limit_order_price(s, side), s.next_order_id, side, qty,
                s.current_time)

\* Simulator::generate_market_taker_order: side, size, then market or limit; the `?`
\* on the limit price gives the order up before an id is taken.  The result holds
\* the order, if any, as a sequence of at most one order.
generate_market_taker_order(s) ==
    taker_order([s EXCEPT !.rng = rng_next(rng_next(rng_next(@)))],
                IF gen_bool(s.rng) THEN "Buy" ELSE "Sell",
                gen_range(rng_next(s.rng), s.order_gen_config.min_order_size,
                          s.order_gen_config.max_order_size),
                gen_f64(rng_next(rng_next(s.rng))) < s.order_gen_config.market_order_prob)

RECURSIVE update_trades(_, _, _)
update_trades(m, trades, taker_side) ==
    IF trades = <<>> THEN m
    ELSE update_trades(update_trade(m, taker_side, Head(trades).qty, Head(trades).price),
                       Tail(trades), taker_side)

\* Simulator::update_metrics: every trade is booked on taker_side; pnl is recomputed
\* only when the book has a mid price
update_metrics(s, trades, taker_side) ==
    IF is_some(mid_ticks(s.engine))
    THEN [s EXCEPT !.metrics = calculate_pnl(update_trades(@, trades, taker_side),
                                             mid_ticks(s.engine))]
    ELSE [s EXCEPT !.metrics = update_trades(@, trades, taker_side)]

\* Vec::push followed by swap_remove(0): the newest entry takes the place of the oldest
push_capped_swap_remove(history, entry) ==
    IF Len(history) + 1 > SpreadHistoryCap THEN <<entry>> \o Tail(history)
    ELSE Append(history, entry)

\* Vec::push followed by remove(0) when the length has passed the cap
push_capped(history, entry) ==
    IF Len(history) + 1 > SpreadHistoryCap THEN Tail(Append(history, entry))
    ELSE Append(history, entry)

\* Simulator::update_spread_history
update_spread_history(s) ==
    IF ~is_some(spread(s.engine)) THEN s
    ELSE [s EXCEPT !.recent_spreads =
                push_capped(@, <<s.current_time, unwrap(spread(s.engine))>>)]

\* Simulator::simulate_network_latency
simulate_network_latency(s) ==
    [s EXCEPT !.rng = simulate_latency(s.net, s.rng).rng,
              !.current_time = @ + simulate_latency(s.net, s.rng).latency]

\* the two arms of step on the result r of engine.place: trades are booked on
\* metrics_side; a recoverable error is passed over, any other error is handed on
accounted(s, r, metrics_side) ==
    IF r.err /= ""
    THEN [sim |-> s, trades |-> <<>>, err |-> IF is_recoverable(r.err) THEN "" ELSE r.err]
    ELSE [sim |-> IF r.trades /= <<>>
                  THEN update_metrics([s EXCEPT !.engine = r.book], r.trades, metrics_side)
                  ELSE [s EXCEPT !.engine = r.book],
          trades |-> r.trades, err |-> ""]

\* The engine.place of step
submit(s, order, metrics_side, now) ==
    accounted(s, place(s.engine, order, now), metrics_side)

\* The loop of step over generated orders: latency, the drop draw, the placement; an
\* error that is not recoverable ends the loop and the step
RECURSIVE submit_all(_, _, _, _)
sent(r, orders, all_trades, now) ==
    IF r.err /= "" THEN [sim |-> r.sim, trades |-> all_trades, err |-> r.err]
    ELSE submit_all(r.sim, orders, all_trades \o r.trades, now)

\* The mutant of send: an order is placed whatever the drop draw says
send_all(delayed, orders, all_trades, now) ==
    sent(submit([delayed EXCEPT !.rng = rng_next(@)], Head(orders), Head(orders).side, now),
         Tail(orders), all_trades, now)

send(delayed, orders, all_trades, now) ==
    IF should_drop(delayed.net, delayed.rng).drop
    THEN submit_all([delayed EXCEPT !.rng = rng_next(@)], Tail(orders), all_trades, now)
    ELSE sent(submit([delayed EXCEPT !.rng = rng_next(@)], Head(orders), Head(orders).side, now),
              Tail(orders), all_trades, now)

submit_all(s, orders, all_trades, now) ==
    IF orders = <<>> THEN [sim |-> s, trades |-> all_trades, err |-> ""]
    ELSE send(simulate_network_latency(s), orders, all_trades, now)

\* MarketEvent::timestamp
timestamp(event) ==
    IF event.kind = "OrderPlacement" THEN event.order.ts ELSE event.timestamp

\* DataSource::next_event (the CSV source reads the record before it parses it, so a
\* record that fails to parse is passed)
next_event(ds) ==
    IF ds.pos > Len(ds.events) THEN [source |-> ds, result |-> "None", event |-> <<>>]
    ELSE [source |-> [ds EXCEPT !.pos = @ + 1],
          result |-> IF ds.events[ds.pos].kind = "Unreadable" THEN "Err" ELSE "Some",
          event |-> ds.events[ds.pos]]

\* what process_market_event keeps of the result r of engine.place: the trades when
\* it is Ok, none when it is an error
applied(s, r) == [sim |-> [s EXCEPT !.engine = r.book], trades |-> r.trades]

\* Simulator::process_market_event: always Ok; placements, cancellations and trades
\* reach the engine, every other event is passed over
process_market_event(s, event, now) ==
    IF event.kind = "OrderPlacement"
    THEN applied(s, place(s.engine, event.order, now))
    ELSE IF event.kind = "OrderCancellation"
    THEN [sim |-> [s EXCEPT !.engine = engine_cancel(s.engine, event.order_id, now).book],
          trades |-> <<>>]
    ELSE IF event.kind = "Trade"
    THEN applied([s EXCEPT !.next_order_id = @ + 1],
                 place(s.engine,
                       new_market(s.next_order_id, event.side, event.qty, s.current_time),
                       now))
    ELSE [sim |-> s, trades |-> <<>>]

\* the trades of a replayed event are booked on the Buy side
booked(p) ==
    [sim |-> IF p.trades /= <<>> THEN update_metrics(p.sim, p.trades, "Buy") ELSE p.sim,
     trades |-> p.trades, err |-> ""]

\* The mutant of replayed: a data source error leaves the mode as it is
replayed_same_mode(s, n, now) ==
    IF n.result = "Some"
    THEN booked(process_market_event(
                    [s EXCEPT !.data_source = Some(n.source),
                              !.current_time = timestamp(n.event)],
                    n.event, now))
    ELSE [sim |-> [s EXCEPT !.data_source = Some(n.source)], trades |-> <<>>, err |-> ""]

\* what step does with the answer n of the data source: an event sets the clock to
\* its timestamp and is processed; an error turns a Historical simulator Synthetic
replayed(s, n, now) ==
    IF n.result = "Some"
    THEN booked(process_market_event(
                    [s EXCEPT !.data_source = Some(n.source),
                              !.current_time = timestamp(n.event)],
                    n.event, now))
    ELSE IF n.result = "Err" /\ s.mode = "Historical"
    THEN [sim |-> [s EXCEPT !.data_source = Some(n.source), !.mode = "Synthetic"],
          trades |-> <<>>, err |-> ""]
    ELSE [sim |-> [s EXCEPT !.data_source = Some(n.source)], trades |-> <<>>, err |-> ""]

\* The data-source arm of step in Historical and Hybrid mode
replay(s, now) ==
    IF ~is_some(s.data_source) THEN [sim |-> s, trades |-> <<>>, err |-> ""]
    ELSE replayed(s, next_event(unwrap(s.data_source)), now)

\* the generated orders go through the loop of step
submit_generated(g, all_trades, now) == submit_all(g.sim, g.orders, all_trades, now)

\* the taker order, if one was generated, goes through the same loop
submit_taker(t, all_trades, now) == submit_all(t.sim, t.order, all_trades, now)

\* the Synthetic arm after the market maker's orders
take(made, now) ==
    IF made.err /= "" THEN made
    ELSE submit_taker(generate_market_taker_order(made.sim), made.trades, now)

\* the Synthetic arm of step
synthetic(s, now) ==
    take(submit_generated(generate_market_making_orders(s), <<>>, now), now)

\* the Hybrid arm after the data source: market making on a draw below one half
quote_on_coin(h, now) ==
    IF gen_f64(h.sim.rng) < 500
    THEN submit_generated(
             generate_market_making_orders([h.sim EXCEPT !.rng = rng_next(@)]),
             h.trades, now)
    ELSE [sim |-> [h.sim EXCEPT !.rng = rng_next(@)], trades |-> h.trades, err |-> ""]

\* the Hybrid arm of step
hybrid(s, now) == quote_on_coin(replay(s, now), now)

\* the end of step: an error that is not recoverable has returned before the spread
\* history; otherwise the history is extended when the step traded
finish(body) ==
    IF body.err /= "" THEN [sim |-> body.sim, trades |-> <<>>, err |-> body.err]
    ELSE [sim |-> IF body.trades /= <<>> THEN update_spread_history(body.sim)
                  ELSE body.sim,
          trades |-> body.trades, err |-> ""]

\* the arm of the mode
dispatch(s, now) ==
    finish(IF s.mode = "Historical" THEN replay(s, now)
           ELSE IF s.mode = "Synthetic" THEN synthetic(s, now)
           ELSE hybrid(s, now))

\* the beginning of step: the clock advances by a drawn interval
clocked(s) ==
    [s EXCEPT !.rng = rng_next(@),
              !.current_time = @ + gen_range(
                   s.rng, s.order_gen_config.mean_order_interval_ns \div 2,
                   s.order_gen_config.mean_order_interval_ns * 2)]

\* Simulator::step: the clock advances by a drawn interval, then the arm of the mode
step(s, now) == dispatch(clocked(s), now)

\* the levels of a ladder as the snapshot shows them: price and total quantity
depth(l) == [p \in DOMAIN l |-> total_qty(l[p])]

\* Simulator::snapshot: the engine's snapshot with the simulator's metrics, spread
\* history and clock written over it
snapshot(s) ==
    [ts |-> s.current_time, best_bid |-> best_bid(s.engine), best_ask |-> best_ask(s.engine),
     spread |-> spread(s.engine), mid |-> mid_ticks(s.engine),
     bids |-> depth(s.engine.bids), asks |-> depth(s.engine.asks),
     metrics |-> s.metrics, recent_spreads |-> s.recent_spreads]

-----------------------------------------------------------------------------
(* SpecRuns: two simulators built from one setup, each stepped on its own *)

\* seeds are 1..MaxSeed
MaxSeed == 3
\* each run makes at most MaxSteps steps
MaxSteps == 5

Seeds == 1..MaxSeed
Modes == {"Synthetic", "Historical", "Hybrid"}

\* a market maker and an order flow of small sizes
SmallMarketMaker == [MarketMakerConfig_default EXCEPT !.order_size = 2, !.max_inventory = 2]
SmallOrderFlow == [OrderGenerationConfig_default EXCEPT !.min_order_size = 1,
                                                        !.max_order_size = 3]
\* a network that loses three orders in ten
LossyNet == [base_latency_ns |-> 2, jitter_ns |-> 1, drop_prob |-> 300, reorder_prob |-> 10]

\* a file of four events, and one whose second record cannot be read
Feed ==
    << [kind |-> "OrderPlacement", order |-> new_limit(101, "Sell", 2, BasePrice, 10)],
       [kind |-> "OrderPlacement", order |-> new_limit(102, "Buy", 1, BasePrice, 20)],
       [kind |-> "Trade", price |-> BasePrice, qty |-> 1, side |-> "Buy", timestamp |-> 30],
       [kind |-> "OrderCancellation", order_id |-> 101, timestamp |-> 40] >>
BrokenFeed ==
    << [kind |-> "OrderPlacement", order |-> new_limit(101, "Sell", 2, BasePrice, 10)],
       [kind |-> "Unreadable"],
       [kind |-> "OrderModification", order_id |-> 101, new_qty |-> Some(1),
        new_price |-> None, timestamp |-> 30],
       [kind |-> "Quote", timestamp |-> 40] >>

Setups == [seed : Seeds, mode : Modes, events : {None, Some(Feed), Some(BrokenFeed)},
           net : {NetModel_default, LossyNet}]

\* the construction of a simulator from a setup, over a new order book
build(st, now) ==
    LET flow == with_order_generation_config(
                    with_market_maker_config(
                        with_network_model(with_seed(OrderBook_new, st.seed, now), st.net),
                        SmallMarketMaker),
                    SmallOrderFlow)
        fed == IF is_some(st.events) THEN with_data_source(flow, unwrap(st.events)) ELSE flow
    IN set_mode(fed, st.mode)

\* what the driver has after a step: what step returned and the snapshot
stepped(r) == [trades |-> r.trades, err |-> r.err, snapshot |-> snapshot(r.sim)]

\* A simulator is built: the first from any setup, the second from the same one.
Build(i) ==
    /\ sims[i] = Unbuilt
    /\ \E st \in Setups :
        /\ setup = NoSetup \/ setup = st
        /\ setup' = st
        /\ sims' = [sims EXCEPT ![i] = build(st, now_ns)]
    /\ UNCHANGED <<wall, outs, LevelVars, BookVars, SimVars, SrvVars, CsvVars, LockVars, BufVars>>

\* One step of a run and the snapshot taken after it.  The wall clock is read once
\* for the whole step.
Step(i) ==
    /\ sims[i] /= Unbuilt
    /\ Len(outs[i]) < MaxSteps
    /\ sims' = [sims EXCEPT ![i] = step(@, now_ns).sim]
    /\ outs' = [outs EXCEPT ![i] = Append(@, stepped(step(sims[i], now_ns)))]
    /\ UNCHANGED <<wall, setup, LevelVars, BookVars, SimVars, SrvVars, CsvVars, LockVars, BufVars>>

NextRuns == Tick \/ (\E i \in Runs : Build(i)) \/ (\E i \in Runs : Step(i))

SpecRuns == Init /\ [][NextRuns]_vars

-----------------------------------------------------------------------------
(* SpecReset: one simulator is built, run for some steps, reset and run again *)

\* DataSource::reset: the source yields its events from the first one again
source_reset(ds) == [ds EXCEPT !.pos = 1]

\* Simulator::reset: metrics, spread history, clock, next order id and the data
\* source; the generator and the engine are left as they are
reset(s, now) ==
    [s EXCEPT !.metrics = Metrics_new, !.recent_spreads = <<>>, !.current_time = now,
              !.next_order_id = 1,
              !.data_source = IF is_some(@) THEN Some(source_reset(unwrap(@))) ELSE @]

\* A simulator is built from a setup over a new order book.
Construct ==
    /\ sim = Unbuilt
    /\ \E st \in Setups :
        /\ setup' = st
        /\ sim' = build(st, now_ns)
    /\ UNCHANGED <<wall, sims, outs, did, ran, LevelVars, BookVars, SrvVars, CsvVars, LockVars, BufVars>>

\* run_steps: a step that fails ends the run, the trades of any other are added to
\* those of the run
kept_first(r) ==
    /\ r.err = ""
    /\ sim' = r.sim
    /\ ran' = [ran EXCEPT !.first = @ \o r.trades, !.steps = @ + 1]

kept_second(r) ==
    /\ r.err = ""
    /\ sim' = r.sim
    /\ ran' = [ran EXCEPT !.second = @ \o r.trades, !.again = @ + 1]

\* run_steps before reset(): one step of the loop
FirstRun ==
    /\ sim /= Unbuilt
    /\ ~ran.reset
    /\ ran.steps < MaxSteps
    /\ kept_first(step(sim, now_ns))
    /\ UNCHANGED <<wall, setup, sims, outs, did, LevelVars, BookVars, SrvVars, CsvVars, LockVars, BufVars>>

\* Simulator::reset between the two runs
Reset ==
    /\ sim /= Unbuilt
    /\ ~ran.reset
    /\ ran.steps > 0
    /\ sim' = reset(sim, now_ns)
    /\ ran' = [ran EXCEPT !.reset = TRUE]
    /\ UNCHANGED <<wall, setup, sims, outs, did, LevelVars, BookVars, SrvVars, CsvVars, LockVars, BufVars>>

\* run_steps after reset(): one step of the loop
SecondRun ==
    /\ ran.reset
    /\ ran.again < ran.steps
    /\ kept_second(step(sim, now_ns))
    /\ UNCHANGED <<wall, setup, sims, outs, did, LevelVars, BookVars, SrvVars, CsvVars, LockVars, BufVars>>

NextReset == Tick \/ Construct \/ FirstRun \/ Reset \/ SecondRun

SpecReset == Init /\ [][NextReset]_vars

-----------------------------------------------------------------------------
(* SpecServer: the step loop of the server and the commands of its clients. *)
(* The simulator is behind one lock; each action below is one holding of    *)
(* the lock, from lock().await to the end of the block that holds it        *)

\* the loop makes at most MaxTicks steps, the clients send at most MaxCommands commands
MaxTicks == 2
MaxCommands == 2

\* the two arms of place_order on the result r of engine.place: trades are booked as
\* a buy and the spread history is extended; an error is handed on
placed(s, r) ==
    IF r.err /= "" THEN [sim |-> s, trades |-> <<>>, err |-> r.err]
    ELSE [sim |-> IF r.trades /= <<>>
                  THEN update_spread_history(
                           update_metrics([s EXCEPT !.engine = r.book], r.trades, "Buy"))
                  ELSE [s EXCEPT !.engine = r.book],
          trades |-> r.trades, err |-> ""]

\* Simulator::place_order
place_order(s, order, now) == placed(s, place(s.engine, order, now))

\* Simulator::reset_metrics
reset_metrics(s) == [s EXCEPT !.metrics = Metrics_new, !.recent_spreads = <<>>]

\* the orders handle_test_order_placement builds: a side, a quantity above zero, and
\* a price above zero or none; the id and the time stamp are read off the wall clock
test_orders(now) ==
    { new_limit(now % 1000000, side, 1, price, now) :
          side \in Sides, price \in {BasePrice - 50, BasePrice + 50} }
    \cup { new_market(now % 1000000, side, 1, now) : side \in Sides }

\* The server is started over a simulator.
Serve ==
    /\ srv.sim = Unbuilt
    /\ \E st \in Setups : srv' = [srv EXCEPT !.sim = build(st, now_ns), !.limit = MaxTicks]
    /\ UNCHANGED <<wall, LevelVars, BookVars, RunVars, SimVars, CsvVars, LockVars, BufVars>>

\* the failures in a row after which the loop logs a recovery
MAX_CONSECUTIVE_ERRORS == 10

\* The mutant of counted: the counter is not set back when the recovery is logged
counted_on(consecutive_errors, ok) ==
    IF ok THEN [errors |-> 0, fired |-> FALSE]
    ELSE [errors |-> consecutive_errors + 1,
          fired |-> consecutive_errors + 1 >= MAX_CONSECUTIVE_ERRORS]

\* what the match on step_result does with consecutive_errors: Ok sets it to 0, Err
\* adds one, and at MAX_CONSECUTIVE_ERRORS the recovery is logged and it is set to 0
counted(consecutive_errors, ok) ==
    IF ok THEN [errors |-> 0, fired |-> FALSE]
    ELSE IF consecutive_errors + 1 >= MAX_CONSECUTIVE_ERRORS
    THEN [errors |-> 0, fired |-> TRUE]
    ELSE [errors |-> consecutive_errors + 1, fired |-> FALSE]

\* what the loop does with the result r of step: Ok goes on to the snapshot, Err to
\* the next tick
looped(r) ==
    srv' = [srv EXCEPT !.sim = r.sim, !.ticks = @ + 1,
                       !.pc = IF r.err = "" THEN "snapshot" ELSE "step",
                       !.left = IF r.err = "" THEN Some(snapshot(r.sim)) ELSE @,
                       !.consecutive_errors = counted(@, r.err = "").errors,
                       !.log = Append(@, [ok |-> r.err = "",
                                          fired |-> counted(srv.consecutive_errors,
                                                            r.err = "").fired])]

\* start_simulation_loop, first block: lock, step(), unlock
LoopStep ==
    /\ srv.sim /= Unbuilt
    /\ srv.pc = "step"
    /\ srv.ticks < srv.limit
    /\ looped(step(srv.sim, now_ns))
    /\ UNCHANGED <<wall, LevelVars, BookVars, RunVars, SimVars, CsvVars, LockVars, BufVars>>

\* start_simulation_loop, second block: lock, snapshot(), unlock, broadcast
LoopSnapshot ==
    /\ srv.pc = "snapshot"
    /\ srv' = [srv EXCEPT !.pc = "step", !.sent = Some(snapshot(srv.sim))]
    /\ UNCHANGED <<wall, LevelVars, BookVars, RunVars, SimVars, CsvVars, LockVars, BufVars>>

\* handle_client_message, "reset_metrics": lock, reset_metrics(), unlock
ClientResetMetrics ==
    /\ srv.sim /= Unbuilt
    /\ srv.commands < MaxCommands
    /\ srv' = [srv EXCEPT !.sim = reset_metrics(@), !.commands = @ + 1]
    /\ UNCHANGED <<wall, LevelVars, BookVars, RunVars, SimVars, CsvVars, LockVars, BufVars>>

\* handle_test_order_placement: lock, place_order(), unlock
ClientPlaceOrder ==
    /\ srv.sim /= Unbuilt
    /\ srv.commands < MaxCommands
    /\ \E order \in test_orders(now_ns) :
        srv' = [srv EXCEPT !.sim = place_order(@, order, now_ns).sim, !.commands = @ + 1]
    /\ UNCHANGED <<wall, LevelVars, BookVars, RunVars, SimVars, CsvVars, LockVars, BufVars>>

\* the longest message handle_client_message takes, in bytes
MaxMessageBytes == 10000

\* a JSON value of a field: a number or a string
Num(n) == [t |-> "num", n |-> n, s |-> ""]
Str(x) == [t |-> "str", n |-> 0, s |-> x]
\* serde_json::Value::as_str, as_u64, as_f64 on a field that may be absent
as_str(field) ==
    IF is_some(field) /\ unwrap(field).t = "str" THEN Some(unwrap(field).s) ELSE None
as_u64(field) ==
    IF is_some(field) /\ unwrap(field).t = "num" /\ unwrap(field).n >= 0
    THEN Some(unwrap(field).n) ELSE None
as_f64(field) ==
    IF is_some(field) /\ unwrap(field).t = "num" THEN Some(unwrap(field).n) ELSE None
\* str::to_lowercase on the words the messages below use
to_lowercase(x) ==
    IF x = "BUY" THEN "buy" ELSE IF x = "Sell" THEN "sell" ELSE IF x = "PING" THEN "ping"
    ELSE x

\* a JSON object with the fields the handlers read, each one present or absent
Object(command, speed, side, qty, price) ==
    [command |-> command, speed |-> speed, side |-> side, qty |-> qty, price |-> price]
Command(name) == Object(Some(Str(name)), None, None, None, None)
\* a message: its length in bytes, whether it is white space only, what
\* serde_json::from_str makes of it (None when it is not JSON), and its text trimmed
Json(bytes, object) == [bytes |-> bytes, blank |-> FALSE, json |-> Some(object), text |-> ""]
Text(bytes, text) == [bytes |-> bytes, blank |-> text = "", json |-> None, text |-> text]

\* the messages the clients send
Messages ==
    { Text(0, ""), Text(3, ""), Text(4, "PING"), Text(12, "test message"),
      Text(9, "{command:"), Text(MaxMessageBytes + 1, "ping"),
      Json(MaxMessageBytes + 1, Command("reset_metrics")),
      Json(MaxMessageBytes, Command("reset_metrics")),
      Json(2, Object(None, None, None, None, None)),
      Json(13, Object(Some(Num(5)), None, None, None, None)),
      Json(24, Command("get_health")), Json(24, Command("frobnicate")),
      Json(27, Command("reset_metrics")) }
    \cup { Json(40, Object(Some(Str("set_simulation_speed")), speed, None, None, None)) :
              speed \in {None, Some(Str("fast")), Some(Num(0)), Some(Num(1)), Some(Num(101))} }
    \cup { Json(60, Object(Some(Str("place_test_order")), None, side, Some(Num(1)), None)) :
              side \in {None, Some(Num(1)), Some(Str("hold")), Some(Str("BUY"))} }
    \cup { Json(60, Object(Some(Str("place_test_order")), None, Some(Str("Sell")), qty, None)) :
              qty \in {None, Some(Str("one")), Some(Num(0 - 1)), Some(Num(0))} }
    \cup { Json(60, Object(Some(Str("place_test_order")), None, Some(Str("BUY")),
                           Some(Num(1)), price)) :
              price \in {Some(Num(0)), Some(Str("high")), Some(Num(BasePrice + 50))} }

Rejected(s) == [sim |-> s, err |-> "Rejected"]
Accepted(s) == [sim |-> s, err |-> ""]

\* handle_test_order_placement once side and qty are read: the price, the order built
\* on the wall clock, place_order under the lock
test_order_placed(object, s, side, qty, now) ==
    IF is_some(object.price) /\ ~is_some(as_u64(object.price)) THEN Rejected(s)
    ELSE IF is_some(object.price) /\ unwrap(as_u64(object.price)) = 0
    THEN [sim |-> s, err |-> "InvalidPrice"]
    ELSE LET order == IF is_some(object.price)
                      THEN new_limit(now % 1000000, side, qty,
                                     unwrap(as_u64(object.price)), now)
                      ELSE new_market(now % 1000000, side, qty, now)
             r == place_order(s, order, now)
         IN [sim |-> r.sim, err |-> r.err]

\* handle_test_order_placement
handle_test_order_placement(object, s, now) ==
    IF ~is_some(as_str(object.side)) THEN Rejected(s)
    ELSE IF to_lowercase(unwrap(as_str(object.side))) \notin {"buy", "sell"} THEN Rejected(s)
    ELSE IF ~is_some(as_u64(object.qty)) THEN Rejected(s)
    ELSE IF unwrap(as_u64(object.qty)) = 0 THEN [sim |-> s, err |-> "InvalidQty"]
    ELSE test_order_placed(object, s,
                           IF to_lowercase(unwrap(as_str(object.side))) = "buy"
                           THEN "Buy" ELSE "Sell",
                           unwrap(as_u64(object.qty)), now)

\* handle_structured_message
handle_structured_message(object, s, now) ==
    IF ~is_some(as_str(object.command)) THEN Rejected(s)
    ELSE IF unwrap(as_str(object.command)) = "get_health" THEN Accepted(s)
    ELSE IF unwrap(as_str(object.command)) = "reset_metrics" THEN Accepted(reset_metrics(s))
    ELSE IF unwrap(as_str(object.command)) = "set_simulation_speed"
    THEN IF ~is_some(as_f64(object.speed)) THEN Rejected(s)
         ELSE IF unwrap(as_f64(object.speed)) <= 0 \/ unwrap(as_f64(object.speed)) > 100
         THEN Rejected(s)
         ELSE Accepted(s)
    ELSE IF unwrap(as_str(object.command)) = "place_test_order"
    THEN handle_test_order_placement(object, s, now)
    ELSE Rejected(s)

\* handle_text_command: ping, status, help and every other text are Ok
handle_text_command(text, s) == Accepted(s)

\* handle_client_message
handle_client_message(message, s, now) ==
    IF message.blank THEN Rejected(s)
    ELSE IF message.bytes > MaxMessageBytes THEN Rejected(s)
    ELSE IF is_some(message.json) THEN handle_structured_message(unwrap(message.json), s, now)
    ELSE handle_text_command(to_lowercase(message.text), s)

\* the message was handled with the result r
handled(message, r) ==
    srv' = [srv EXCEPT !.sim = r.sim, !.commands = @ + 1,
                       !.heard = [n |-> @.n + 1, message |-> Some(message), err |-> r.err]]

\* A client sends a message over its socket.
ClientMessage ==
    /\ srv.sim /= Unbuilt
    /\ srv.commands < MaxCommands
    /\ \E message \in Messages : handled(message, handle_client_message(message, srv.sim, now_ns))
    /\ UNCHANGED <<wall, LevelVars, BookVars, RunVars, SimVars, CsvVars, LockVars, BufVars>>

NextServer ==
    \/ Serve \/ LoopStep \/ LoopSnapshot \/ ClientResetMetrics \/ ClientPlaceOrder
    \/ ClientMessage

SpecServer == Init /\ [][NextServer]_vars

-----------------------------------------------------------------------------
(* SpecSim: one simulator under step and place_order *)

\* at most MaxCalls calls are made on the simulator
MaxCalls == 3

\* a file whose second placement sells into the first and whose trade is a sale
SellFeed ==
    << [kind |-> "OrderPlacement", order |-> new_limit(201, "Buy", 2, BasePrice, 10)],
       [kind |-> "OrderPlacement", order |-> new_limit(202, "Sell", 1, BasePrice, 20)],
       [kind |-> "Trade", price |-> BasePrice, qty |-> 1, side |-> "Sell", timestamp |-> 30] >>
\* a data source that yields a placement of no quantity (a DataSource need not
\* validate what it yields)
ZeroFeed ==
    << [kind |-> "OrderPlacement", order |-> new_limit(301, "Buy", 0, BasePrice, 10)],
       [kind |-> "OrderPlacement", order |-> new_limit(302, "Buy", 1, BasePrice, 20)] >>

\* a file whose second event changes the quantity of the order the first one placed
ModifyFeed ==
    << [kind |-> "OrderPlacement", order |-> new_limit(401, "Sell", 2, BasePrice, 10)],
       [kind |-> "OrderModification", order_id |-> 401, new_qty |-> Some(1),
        new_price |-> None, timestamp |-> 20],
       [kind |-> "Quote", timestamp |-> 30] >>

\* a spread history of n entries, the oldest first
history(n) == [i \in 1..n |-> <<i, 100 + i>>]

\* the public field recent_spreads holding n entries from earlier trading, the clock
\* past the last of them
warmed(s, n) == [s EXCEPT !.recent_spreads = history(n), !.current_time = @ + n]

\* the setups of SpecSim: a seed, a mode, a data source or none, the market maker's
\* order size, and the length of the spread history
SimSetups ==
    { st \in [seed : Seeds, mode : Modes, net : {NetModel_default, LossyNet},
              events : {None, Some(Feed), Some(BrokenFeed), Some(SellFeed), Some(ZeroFeed),
                        Some(ModifyFeed)},
              size : {0, 2}, warm : {0, SpreadHistoryCap - 1, SpreadHistoryCap}] :
        /\ st.net = LossyNet => (st.events = None /\ st.warm = 0 /\ st.size = 2)
        /\ st.size = 0 => (st.events \in {None, Some(SellFeed)} /\ st.warm = 0)
        /\ st.warm > 0 => st.events \in {None, Some(Feed)} }

\* the construction of the simulator of SpecSim
start(st, now) ==
    warmed(with_market_maker_config(build(st, now),
                                    [SmallMarketMaker EXCEPT !.order_size = st.size]),
           st.warm)

\* the orders given to place_order by hand
manual_orders(id, now) ==
    { new_limit(id, side, 1, BasePrice, now) : side \in Sides }
    \cup { new_market(id, side, 1, now) : side \in Sides }

\* the answer the data source gives the step made on s: "" when step does not ask
answer(s) ==
    IF s.mode /= "Synthetic" /\ is_some(s.data_source)
    THEN next_event(unwrap(s.data_source)).result ELSE ""

Start ==
    /\ sim = Unbuilt
    /\ \E st \in SimSetups : sim' = start(st, now_ns)
    /\ UNCHANGED <<wall, setup, sims, outs, did, ran, LevelVars, BookVars, SrvVars, CsvVars, LockVars, BufVars>>

\* the call op on the simulator returned r
called(op, order, r) ==
    /\ sim' = r.sim
    /\ did' = [op |-> op, n |-> did.n + 1, order |-> order, trades |-> r.trades,
               err |-> r.err, was |-> sim,
               fell |-> \/ did.fell
                        \/ op = "step" /\ sim.mode = "Historical" /\ answer(sim) = "Err"]

\* Simulator::step
SimStep ==
    /\ sim /= Unbuilt
    /\ did.n < MaxCalls
    /\ called("step", NoOrder, step(sim, now_ns))
    /\ UNCHANGED <<wall, setup, sims, outs, ran, LevelVars, BookVars, SrvVars, CsvVars, LockVars, BufVars>>

\* Simulator::place_order
PlaceOrder ==
    /\ sim /= Unbuilt
    /\ did.n < MaxCalls
    /\ \E order \in manual_orders(900 + did.n, now_ns) :
        called("place_order", order, place_order(sim, order, now_ns))
    /\ UNCHANGED <<wall, setup, sims, outs, ran, LevelVars, BookVars, SrvVars, CsvVars, LockVars, BufVars>>

NextSim == Start \/ SimStep \/ PlaceOrder

SpecSim == Init /\ [][NextSim]_vars

-----------------------------------------------------------------------------
(* SpecDriver: the step loop of the server followed over many ticks, over  *)
(* simulators whose steps fail                                              *)

\* the loop is followed for MaxDriveTicks steps
MaxDriveTicks == 34

\* simulators whose market maker quotes no quantity, and ones whose steps succeed
DriverSetups == { st \in SimSetups : st.warm = 0 /\ st.events = None }

\* The server is started over a simulator and left to run.
Drive ==
    /\ srv.sim = Unbuilt
    /\ \E st \in DriverSetups :
        srv' = [srv EXCEPT !.sim = start(st, now_ns), !.limit = MaxDriveTicks]
    /\ UNCHANGED <<wall, LevelVars, BookVars, RunVars, SimVars, CsvVars, LockVars, BufVars>>

NextDriver == Drive \/ LoopStep \/ LoopSnapshot

SpecDriver == Init /\ [][NextDriver]_vars

-----------------------------------------------------------------------------
(* SpecShutdown: the step loop of the server, one suspension point at a     *)
(* time, and the abort() of its task when the server has stopped.  A task   *)
(* that was aborted is dropped the next time it is suspended at an .await   *)

\* The mutant of AwaitPoints: the step could be suspended part way
AwaitPointsInStep == {"step", "lock", "in_step", "record", "snapshot"}

\* where the loop can be suspended: interval.tick().await, simulator.lock().await
\* before the step, the .await after the step (health_metrics.lock(), record_error),
\* and simulator.lock().await before the snapshot.  Between the lock and the end of
\* step() there is no .await
AwaitPoints == {"step", "lock", "record", "snapshot"}

\* interval.tick().await has returned
AwaitTick ==
    /\ srv.sim /= Unbuilt
    /\ srv.pc = "step"
    /\ srv.ticks < srv.limit
    /\ srv' = [srv EXCEPT !.pc = "lock"]
    /\ UNCHANGED <<wall, LevelVars, BookVars, RunVars, SimVars, CsvVars, LockVars, BufVars>>

\* the lock is taken and step() has begun: the clock is advanced
BeginStep ==
    /\ srv.pc = "lock"
    /\ srv' = [srv EXCEPT !.pc = "in_step", !.sim = clocked(@),
                          !.whole = step(srv.sim, now_ns).sim]
    /\ UNCHANGED <<wall, LevelVars, BookVars, RunVars, SimVars, CsvVars, LockVars, BufVars>>

\* the rest of step() has returned r and the lock is released
finished(r) ==
    srv' = [srv EXCEPT !.sim = r.sim, !.ticks = @ + 1, !.pc = "record",
                       !.consecutive_errors = counted(@, r.err = "").errors,
                       !.log = Append(@, [ok |-> r.err = "",
                                          fired |-> counted(srv.consecutive_errors,
                                                            r.err = "").fired])]

FinishStep ==
    /\ srv.pc = "in_step"
    /\ finished(dispatch(srv.sim, now_ns))
    /\ UNCHANGED <<wall, LevelVars, BookVars, RunVars, SimVars, CsvVars, LockVars, BufVars>>

\* the health metrics or the error are recorded: Ok goes on to the snapshot, Err to
\* the next tick
Record ==
    /\ srv.pc = "record"
    /\ srv' = [srv EXCEPT !.pc = IF srv.log[Len(srv.log)].ok THEN "snapshot" ELSE "step",
                          !.left = IF srv.log[Len(srv.log)].ok THEN Some(snapshot(srv.sim))
                                   ELSE @]
    /\ UNCHANGED <<wall, LevelVars, BookVars, RunVars, SimVars, CsvVars, LockVars, BufVars>>

\* axum::serve has returned and start_server calls simulation_handle.abort()
Shutdown ==
    /\ srv.sim /= Unbuilt
    /\ ~srv.shutdown
    /\ srv' = [srv EXCEPT !.shutdown = TRUE, !.caught = srv.pc]
    /\ UNCHANGED <<wall, LevelVars, BookVars, RunVars, SimVars, CsvVars, LockVars, BufVars>>

\* the aborted task is dropped where it is suspended
Cancelled ==
    /\ srv.shutdown
    /\ srv.pc \in AwaitPoints
    /\ srv' = [srv EXCEPT !.pc = "cancelled"]
    /\ UNCHANGED <<wall, LevelVars, BookVars, RunVars, SimVars, CsvVars, LockVars, BufVars>>

NextShutdown ==
    \/ Drive \/ AwaitTick \/ BeginStep \/ FinishStep \/ Record \/ LoopSnapshot
    \/ Shutdown \/ Cancelled

SpecShutdown == Init /\ [][NextShutdown]_vars

-----------------------------------------------------------------------------
(* SpecCsv: one CSV data source under next_event, seek_to_time and reset.   *)
(* A file is its rows, the header row first.  The reader of the csv crate   *)
(* is the index of the row it reads next and whether it was sought: a       *)
(* reader built with has_headers(true) passes over the header row on its    *)
(* first read, and no longer does so once seek has been called on it.       *)
(* A sleep of next_event moves the wall clock.                              *)

\* a file has at most MaxRows rows after the header, time stamps are 1..MaxStamp, and
\* at most MaxReads calls are made on the source
MaxRows == 3
MaxStamp == 2
MaxReads == 3

\* a row that parses and validates, one that parses and fails validation (a trade of
\* price 0), one that does not parse, and the header row
HeaderRow == [form |-> "header", ts |-> 0]
Rows == [form : {"valid", "invalid"}, ts : 1..MaxStamp] \cup {[form |-> "malformed", ts |-> 0]}
Files == UNION { [1..n -> Rows] : n \in 0..MaxRows }
with_header(rows) == <<HeaderRow>> \o rows

\* CsvDataSource::new
CsvDataSource_new(file) ==
    [file |-> file, reader |-> [pos |-> 1, seeked |-> FALSE], current_line |-> 1,
     playback_speed |-> 1, paused |-> FALSE, last_timestamp |-> None,
     playback_start |-> None, current_position |-> None, finished |-> FALSE]

\* csv::Reader::read_record from row first: the row is read and the reader stands
\* after it, or there is none
read_from(c, first) ==
    IF first > Len(c.file)
    THEN [source |-> [c EXCEPT !.reader.pos = first], ok |-> FALSE, at |-> 0]
    ELSE [source |-> [c EXCEPT !.reader.pos = first + 1], ok |-> TRUE, at |-> first]

\* csv::Reader::read_record: the first read of a reader that was not sought passes
\* over the header row
read_record(c) ==
    read_from(c, IF ~c.reader.seeked /\ c.reader.pos = 1 THEN 2 ELSE c.reader.pos)

\* csv::Reader::seek
seek(c, position) == [c EXCEPT !.reader = [pos |-> position, seeked |-> TRUE]]

\* CsvDataSource::parse_record: the header row has no known event type
parses(row) == row.form \in {"valid", "invalid"}

\* MarketEvent::validate
validates(row) == row.form /= "invalid"

\* the sleep of handle_timing for a gap of time_diff_ns between two events: with a
\* playback start, the gap less the time elapsed since that start; without one, the
\* gap over the playback speed
sleep_for(c, time_diff_ns, now) ==
    IF is_some(c.playback_start)
    THEN saturating_sub(time_diff_ns, now - unwrap(c.playback_start))
    ELSE time_diff_ns \div c.playback_speed

\* CsvDataSource::handle_timing: the source after it and the time slept
handle_timing(c, event_timestamp, now) ==
    IF c.paused THEN [source |-> c, slept |-> 0]
    ELSE IF ~is_some(c.last_timestamp)
    THEN [source |-> [c EXCEPT !.playback_start = Some(now),
                               !.last_timestamp = Some(event_timestamp)],
          slept |-> 0]
    ELSE [source |-> [c EXCEPT !.last_timestamp = Some(event_timestamp)],
          slept |-> IF event_timestamp > unwrap(c.last_timestamp)
                    THEN sleep_for(c, event_timestamp - unwrap(c.last_timestamp), now)
                    ELSE 0]

\* next_event returns the event of row `at` after the handling h of its timing
returned(h, at) == [source |-> h.source, result |-> "Some", at |-> at, slept |-> h.slept]

\* The mutant of parsed: the position is set before the event is validated.
parsed_position_first(c, at, now) ==
    IF ~parses(c.file[at])
    THEN [source |-> c, result |-> "ParseError", at |-> at, slept |-> 0]
    ELSE IF ~validates(c.file[at])
    THEN [source |-> [c EXCEPT !.current_position = Some(c.file[at].ts)],
          result |-> "ValidationError", at |-> at, slept |-> 0]
    ELSE returned(handle_timing([c EXCEPT !.current_position = Some(c.file[at].ts)],
                                c.file[at].ts, now), at)

\* next_event after the record at row `at` was read
parsed(c, at, now) ==
    IF ~parses(c.file[at])
    THEN [source |-> c, result |-> "ParseError", at |-> at, slept |-> 0]
    ELSE IF ~validates(c.file[at])
    THEN [source |-> c, result |-> "ValidationError", at |-> at, slept |-> 0]
    ELSE returned(handle_timing([c EXCEPT !.current_position = Some(c.file[at].ts)],
                                c.file[at].ts, now), at)

\* next_event on the answer r of read_record
fetched(r, now) ==
    IF ~r.ok
    THEN [source |-> [r.source EXCEPT !.finished = TRUE], result |-> "None", at |-> 0,
          slept |-> 0]
    ELSE parsed([r.source EXCEPT !.current_line = @ + 1], r.at, now)

\* CsvDataSource::next_event
csv_next_event(c, now) ==
    IF c.finished THEN [source |-> c, result |-> "None", at |-> 0, slept |-> 0]
    ELSE fetched(read_record(c), now)

\* The mutant of csv_reset: the file is opened again, finished is left as it is.
csv_reset_keeps_finished(c) ==
    [c EXCEPT !.reader = [pos |-> 1, seeked |-> FALSE], !.current_line = 1,
              !.last_timestamp = None, !.playback_start = None,
              !.current_position = None]

\* CsvDataSource::reset: the file is opened again with a new reader; line, finished,
\* last time stamp, playback start and position are cleared; speed and pause stay
csv_reset(c) ==
    [c EXCEPT !.reader = [pos |-> 1, seeked |-> FALSE], !.current_line = 1,
              !.finished = FALSE, !.last_timestamp = None, !.playback_start = None,
              !.current_position = None]

\* CsvDataSource::set_playback_speed
set_playback_speed(c, multiplier) ==
    IF multiplier <= 0 THEN [source |-> c, result |-> "ValidationError", at |-> 0, slept |-> 0]
    ELSE [source |-> [c EXCEPT !.playback_speed = multiplier], result |-> "Ok", at |-> 0,
          slept |-> 0]

\* CsvDataSource::set_paused
set_paused(c, paused, now) ==
    [source |-> IF paused THEN [c EXCEPT !.paused = TRUE]
                ELSE [c EXCEPT !.paused = FALSE, !.playback_start = Some(now)],
     result |-> "Ok", at |-> 0, slept |-> 0]

\* the scan of seek_to_time from the reader's position: the first row that parses
\* with a time stamp of target or more is sought back to
RECURSIVE scan(_, _)
scanned(r, position, target) ==
    IF ~r.ok THEN [source |-> r.source, result |-> "SeekFailed", at |-> 0, slept |-> 0]
    ELSE IF parses(r.source.file[r.at]) /\ r.source.file[r.at].ts >= target
    THEN [source |-> [seek(r.source, position)
                         EXCEPT !.current_position = Some(r.source.file[r.at].ts)],
          result |-> "Ok", at |-> r.at, slept |-> 0]
    ELSE scan([r.source EXCEPT !.current_line = @ + 1], target)

scan(c, target) == scanned(read_record(c), c.reader.pos, target)

\* CsvDataSource::seek_to_time
seek_to_time(c, target) == scan(csv_reset(c), target)

Open ==
    /\ csv = Unbuilt
    /\ \E rows \in Files : csv' = CsvDataSource_new(with_header(rows))
    /\ UNCHANGED <<wall, got, LevelVars, BookVars, RunVars, SimVars, SrvVars, LockVars, BufVars>>

\* the call op(target) on the data source returned r, after the sleep the wall clock
\* has gone through
read(op, target, sought, r) ==
    /\ csv' = r.source
    /\ wall' = wall + r.slept
    /\ got' = [op |-> op, target |-> target, result |-> r.result, at |-> r.at, sought |-> sought,
               slept |-> r.slept, n |-> got.n + 1, was |-> csv,
               before |-> [op |-> got.op, result |-> got.result, at |-> got.at,
                           sought |-> got.sought]]

\* the seek still waited on after the call op returned result
waited(op, result, target) ==
    IF op = "seek_to_time" THEN (IF result = "Ok" THEN Some(target) ELSE None)
    ELSE IF op = "reset" \/ result = "Some" THEN None
    ELSE got.sought

\* what next_event returned
answered(r) == read("next_event", 0, waited("next_event", r.result, 0), r)

NextEvent ==
    /\ csv /= Unbuilt
    /\ got.n < MaxReads
    /\ answered(csv_next_event(csv, now_ns))
    /\ UNCHANGED <<LevelVars, BookVars, RunVars, SimVars, SrvVars, LockVars, BufVars>>

\* what seek_to_time(target) returned
positioned(r, target) ==
    read("seek_to_time", target, waited("seek_to_time", r.result, target), r)

SeekToTime ==
    /\ csv /= Unbuilt
    /\ got.n < MaxReads
    /\ \E target \in 1..(MaxStamp + 1) : positioned(seek_to_time(csv, target), target)
    /\ UNCHANGED <<LevelVars, BookVars, RunVars, SimVars, SrvVars, LockVars, BufVars>>

ResetSource ==
    /\ csv /= Unbuilt
    /\ got.n < MaxReads
    /\ read("reset", 0, None,
            [source |-> csv_reset(csv), result |-> "Ok", at |-> 0, slept |-> 0])
    /\ UNCHANGED <<LevelVars, BookVars, RunVars, SimVars, SrvVars, LockVars, BufVars>>

NextCsv == Open \/ NextEvent \/ SeekToTime \/ ResetSource

SpecCsv == Init /\ [][NextCsv]_vars

-----------------------------------------------------------------------------
(* SpecPlayback: one CSV data source of valid rows under next_event,        *)
(* set_playback_speed and set_paused, the calls made one right after the    *)
(* other: the wall clock moves only while next_event sleeps.                *)

\* the playback speeds set, and one that is refused
MaxSpeed == 2

ValidFiles == { rows \in Files : \A i \in 1..Len(rows) : rows[i].form = "valid" }

OpenValid ==
    /\ csv = Unbuilt
    /\ \E rows \in ValidFiles : csv' = CsvDataSource_new(with_header(rows))
    /\ UNCHANGED <<wall, got, LevelVars, BookVars, RunVars, SimVars, SrvVars, LockVars, BufVars>>

SetPlaybackSpeed ==
    /\ csv /= Unbuilt
    /\ got.n < MaxReads
    /\ \E multiplier \in 0..MaxSpeed :
        read("set_playback_speed", multiplier, got.sought, set_playback_speed(csv, multiplier))
    /\ UNCHANGED <<LevelVars, BookVars, RunVars, SimVars, SrvVars, LockVars, BufVars>>

SetPaused ==
    /\ csv /= Unbuilt
    /\ got.n < MaxReads
    /\ \E paused \in BOOLEAN :
        read("set_paused", 0, got.sought, set_paused(csv, paused, now_ns))
    /\ UNCHANGED <<LevelVars, BookVars, RunVars, SimVars, SrvVars, LockVars, BufVars>>

NextPlayback == OpenValid \/ NextEvent \/ SetPlaybackSpeed \/ SetPaused

SpecPlayback == Init /\ [][NextPlayback]_vars

-----------------------------------------------------------------------------
(* SpecLocks: the driver loop and the client command handlers on the two     *)
(* locks of AppState.  Both are tokio::sync::Mutex: lock().await takes a     *)
(* free lock at once, otherwise the task joins the lock's queue and is       *)
(* handed the lock in arrival order; the guard frees the lock at the end of  *)
(* its scope.                                                                *)

\* no task holds the guard of the lock
free(lock) == \A t \in Tasks : lock \notin tasks.guards[t]

\* the task is in the queue of the lock
InQueue(t, lock) == \E i \in 1..Len(tasks.waiters[lock]) : tasks.waiters[lock][i] = t

\* the task is in the queue of some lock
Waiting(t) == \E lock \in Locks : InQueue(t, lock)

\* the task has the lock and goes on
acquired(t, lock, waiters) ==
    \E p \in Instr(t).next :
        tasks' = [pc |-> [tasks.pc EXCEPT ![t] = p],
                  guards |-> [tasks.guards EXCEPT ![t] = @ \cup {lock}],
                  waiters |-> waiters]

\* An await that is no lock (the interval's tick, the next message of the socket).
TaskAwait(t) ==
    /\ Instr(t).op = "await"
    /\ \E p \in Instr(t).next : tasks' = [tasks EXCEPT !.pc[t] = p]
    /\ UNCHANGED <<wall, LevelVars, BookVars, RunVars, SimVars, SrvVars, CsvVars, BufVars>>

\* lock().await: the lock is taken when it is free and nobody waits for it; otherwise
\* the task joins the queue.
TaskLock(t) ==
    /\ Instr(t).op = "lock"
    /\ ~Waiting(t)
    /\ IF free(Instr(t).lock) /\ tasks.waiters[Instr(t).lock] = <<>>
       THEN acquired(t, Instr(t).lock, tasks.waiters)
       ELSE tasks' = [tasks EXCEPT !.waiters[Instr(t).lock] = Append(@, t)]
    /\ UNCHANGED <<wall, LevelVars, BookVars, RunVars, SimVars, SrvVars, CsvVars, BufVars>>

\* The first of the queue is handed the lock once it is free.
TaskAcquire(t) ==
    /\ Instr(t).op = "lock"
    /\ tasks.waiters[Instr(t).lock] /= <<>>
    /\ Head(tasks.waiters[Instr(t).lock]) = t
    /\ free(Instr(t).lock)
    /\ acquired(t, Instr(t).lock, [tasks.waiters EXCEPT ![Instr(t).lock] = Tail(@)])
    /\ UNCHANGED <<wall, LevelVars, BookVars, RunVars, SimVars, SrvVars, CsvVars, BufVars>>

\* The guard goes out of scope.
TaskUnlock(t) ==
    /\ Instr(t).op = "unlock"
    /\ \E p \in Instr(t).next :
        tasks' = [tasks EXCEPT !.pc[t] = p, !.guards[t] = @ \ {Instr(t).lock}]
    /\ UNCHANGED <<wall, LevelVars, BookVars, RunVars, SimVars, SrvVars, CsvVars, BufVars>>

NextLocks ==
    \E t \in Tasks : TaskAwait(t) \/ TaskLock(t) \/ TaskAcquire(t) \/ TaskUnlock(t)

\* what the runtime makes a task do sooner or later: the code between two awaits
\* runs, a lock that is free is handed to the first of its queue, and the interval
\* of the loop ticks; a client need not send another message
Progress(t) ==
    TaskLock(t) \/ TaskAcquire(t) \/ TaskUnlock(t) \/ (t = 0 /\ TaskAwait(t))

SpecLocks == Init /\ [][NextLocks]_vars /\ \A t \in Tasks : WF_vars(Progress(t))

-----------------------------------------------------------------------------
(* SpecBuffer: one CircularBuffer under push, shrink_to and clear *)

\* the largest capacity a buffer is created with or shrunk to
MaxCapacity == 3
\* at most MaxPushes items are pushed
MaxPushes == 5
\* the items pushed
Items == {1, 2}

\* CircularBuffer::new
CircularBuffer_new(max_size) == [data |-> <<>>, max_size |-> max_size, total_added |-> 0]

\* VecDeque::pop_front: nothing is removed from an empty queue
pop_front(data) == IF data = <<>> THEN <<>> ELSE Tail(data)

\* CircularBuffer::push: the oldest item goes when the buffer is at capacity
push(b, item) ==
    [b EXCEPT !.data = Append(IF Len(b.data) >= b.max_size THEN pop_front(b.data)
                              ELSE b.data,
                              item),
              !.total_added = @ + 1]

\* CircularBuffer::len
len(b) == Len(b.data)

\* CircularBuffer::capacity
capacity(b) == b.max_size

\* CircularBuffer::to_vec
to_vec(b) == b.data

\* CircularBuffer::clear
clear(b) == [b EXCEPT !.data = <<>>]

\* the while loop of shrink_to: the oldest items go until new_size are left
RECURSIVE pop_down_to(_, _)
pop_down_to(data, new_size) ==
    IF Len(data) > new_size THEN pop_down_to(pop_front(data), new_size) ELSE data

\* CircularBuffer::shrink_to: a new_size that is not smaller changes nothing
shrink_to(b, new_size) ==
    IF new_size < b.max_size
    THEN [b EXCEPT !.max_size = new_size, !.data = pop_down_to(@, new_size)]
    ELSE b

\* A buffer is created.
NewBuffer ==
    /\ cb.buffer = Unbuilt
    /\ \E max_size \in 0..MaxCapacity :
        cb' = [buffer |-> CircularBuffer_new(max_size), pushed |-> <<>>]
    /\ UNCHANGED <<wall, LevelVars, BookVars, RunVars, SimVars, SrvVars, CsvVars, LockVars>>

Push ==
    /\ cb.buffer /= Unbuilt
    /\ cb.buffer.total_added < MaxPushes
    /\ \E item \in Items :
        cb' = [buffer |-> push(cb.buffer, item), pushed |-> Append(cb.pushed, item)]
    /\ UNCHANGED <<wall, LevelVars, BookVars, RunVars, SimVars, SrvVars, CsvVars, LockVars>>

ShrinkTo ==
    /\ cb.buffer /= Unbuilt
    /\ \E new_size \in 0..MaxCapacity :
        cb' = [cb EXCEPT !.buffer = shrink_to(@, new_size)]
    /\ UNCHANGED <<wall, LevelVars, BookVars, RunVars, SimVars, SrvVars, CsvVars, LockVars>>

\* the items pushed before a clear are no longer expected
Clear ==
    /\ cb.buffer /= Unbuilt
    /\ cb' = [buffer |-> clear(cb.buffer), pushed |-> <<>>]
    /\ UNCHANGED <<wall, LevelVars, BookVars, RunVars, SimVars, SrvVars, CsvVars, LockVars>>

NextBuffer == NewBuffer \/ Push \/ ShrinkTo \/ Clear

SpecBuffer == Init /\ [][NextBuffer]_vars

-----------------------------------------------------------------------------
(* Notions the properties below are stated with *)

\* the orders stored in the levels of one ladder, of both
LadderIds(l) == UNION {IdsOf(l[p].orders) : p \in DOMAIN l}
RestingIds(b) == LadderIds(b.bids) \cup LadderIds(b.asks)

\* the number of stored orders with this id, over both ladders
Copies(b, id) ==
    LET n(l) == {<<p, i>> \in (DOMAIN l) \X (1..MaxId + 1) :
                    i <= Len(l[p].orders) /\ l[p].orders[i].id = id}
    IN Cardinality(n(b.bids)) + Cardinality(n(b.asks))

\* the price and the side of the level that stores this id
StoredAt(b, id) ==
    CHOOSE sp \in Sides \X (0..MaxPrice) :
        /\ sp[2] \in DOMAIN ladder(b, sp[1])
        /\ id \in IdsOf(ladder(b, sp[1])[sp[2]].orders)

StoredOrder(b, id) ==
    LET sp == StoredAt(b, id)
        os == ladder(b, sp[1])[sp[2]].orders
    IN os[CHOOSE i \in 1..Len(os) : os[i].id = id]

\* a level without its activity stamp
Content(lv) == [orders |-> lv.orders, total_qty |-> lv.total_qty]
LadderContent(l) == [p \in DOMAIN l |-> Content(l[p])]

\* same ladders, same levels, same per-level order sequence and quantities, same index
SameBook(a, b) ==
    /\ LadderContent(a.bids) = LadderContent(b.bids)
    /\ LadderContent(a.asks) = LadderContent(b.asks)
    /\ a.index = b.index

IsPlaceStep == last.op = "idle" /\ last'.op = "place"
IsCancelStep == last.op = "idle" /\ last'.op = "cancel"
IsModifyStep == last.op = "idle" /\ last'.op = "modify"

-----------------------------------------------------------------------------
C2_TradesOfPlace ==
    [][IsPlaceStep =>
        LET O == last'.order
            T == last'.trades
        IN /\ SumQty(T) <= O.qty
           /\ \A k \in 1..Len(T) :
                /\ T[k].taker_id = O.id
                /\ T[k].maker_id \in RestingIds(book)
                /\ StoredAt(book, T[k].maker_id) = <<opposite(O.side), T[k].price>>
                /\ is_limit(O) /\ O.side = "Buy" => T[k].price <= O.order_type.price
                /\ is_limit(O) /\ O.side = "Sell" => T[k].price >= O.order_type.price
    ]_vars

\* a limit order has traded with two makers
C2_Witness ==
    /\ last.op = "place"
    /\ is_limit(last.order)
    /\ Len(last.trades) >= 2

(* C3. Within one place call the opposite ladder is swept best price first: *)
(* trades appear in order of price level (highest bid first for a sell      *)
(* taker, lowest ask first for a buy taker), no order at a worse price      *)
(* trades while a better-priced opposite level still holds quantity, and a  *)
(* level emptied by matching is removed from the ladder.                    *)
Better(side, p, q) == IF side = "Buy" THEN p > q ELSE p < q

C3_BestPriceFirst ==
    [][IsPlaceStep =>
        LET O == last'.order
            T == last'.trades
            side == opposite(O.side)
            pre == ladder(book, side)
            post == ladder(book', side)
            traded(p) == {k \in 1..Len(T) : T[k].price = p}
        IN /\ \A k, m \in 1..Len(T) :
                k < m => ~Better(side, T[m].price, T[k].price)
           /\ \A k \in 1..Len(T) : \A p \in DOMAIN pre :
                Better(side, p, T[k].price)
                    => /\ p \notin DOMAIN post
                       /\ \A m \in traded(p) : m < k
                       /\ IdsOf(pre[p].orders) = {T[m].maker_id : m \in traded(p)}
           /\ \A p \in DOMAIN post : post[p].orders /= <<>> /\ post[p].total_qty > 0
    ]_vars

\* a sweep through two levels, the second one left with quantity
C3_Witness ==
    /\ last.op = "place"
    /\ Len(last.trades) = 2
    /\ last.trades[1].price /= last.trades[2].price
    /\ last.trades[2].price \in DOMAIN ladder(book, opposite(last.order.side))

(* C4. At a FifoLevel, after any interleaving of enqueue and cancel calls,   *)
(* match_against consumes the surviving orders strictly in the order in     *)
(* which they were enqueued: the stored orders stand in enqueue order, the  *)
(* makers of the emitted trades appear in enqueue order, and every maker    *)
(* was enqueued before every order the call left behind; cancelling an      *)
(* interior order keeps the relative order of the others.                   *)
C4_FifoOrder ==
    LET os == lvl.orders
        T == lvlLast.trades
    IN /\ \A i, j \in 1..Len(os) : i < j => <<os[i].id, os[j].id>> \in before
       /\ lvlLast.op = "match_against" =>
            /\ \A k, m \in 1..Len(T) :
                 k < m => <<T[k].maker_id, T[m].maker_id>> \in before
            /\ \A k \in 1..Len(T) : \A i \in 1..Len(os) :
                 T[k].maker_id /= os[i].id => <<T[k].maker_id, os[i].id>> \in before

\* two makers traded in one call, and an order enqueued between them was cancelled
C4_Witness ==
    /\ lvlLast.op = "match_against"
    /\ Len(lvlLast.trades) = 2
    /\ \E c \in Ids :
         /\ c \notin IdsOf(lvl.orders)
         /\ <<lvlLast.trades[1].maker_id, c>> \in before
         /\ <<c, lvlLast.trades[2].maker_id>> \in before

C6_Cancel ==
    [][IsCancelStep =>
        LET id == last'.id
        IN IF id \in RestingIds(book)
           THEN /\ last'.err = ""
                /\ last'.qty = StoredOrder(book, id).qty
                /\ RestingIds(book') = RestingIds(book) \ {id}
                /\ id \notin DOMAIN book'.index
                /\ \A other \in RestingIds(book') :
                     /\ StoredOrder(book', other) = StoredOrder(book, other)
                     /\ StoredAt(book', other) = StoredAt(book, other)
           ELSE /\ last'.err = "UnknownOrder"
                /\ last'.qty = 0
                /\ book' = book
    ]_vars

\* the same id was cancelled twice in a row, the book holding other orders
C6_Witness ==
    /\ rt.stage = "cancelled again"
    /\ last.op = "cancel"
    /\ last.err = "UnknownOrder"
    /\ RestingIds(book) /= {}

(* C7. Round trip: a limit order with a fresh id that rests without trading *)
(* and is then cancelled leaves the book as it was before the placement:    *)
(* same ladders, same levels, same per-level order sequence and quantities, *)
(* same id index; the cancel returns the order's quantity.                  *)
C7_RoundTrip ==
    rt.stage = "cancelled" =>
        /\ SameBook(book, rt.book)
        /\ last.op = "cancel" => last.err = "" /\ last.qty = rt.order.qty

\* the round trip went through a level that held another order
C7_Witness ==
    /\ rt.stage = "cancelled"
    /\ last.op = "cancel"
    /\ rt.order.order_type.price \in DOMAIN ladder(book, rt.order.side)

(* C8. modify(id, ...) that changes the price or increases the size moves   *)
(* the order to the tail of its destination level (what the re-submission   *)
(* at the new price leaves of it is matched after every order resting       *)
(* there); a strict size decrease keeps the order's queue position and only *)
(* lowers its qty and the level's total_qty; modify of an id that is not    *)
(* resting fails and changes nothing.                                       *)
PositionOf(b, id) ==
    LET sp == StoredAt(b, id)
    IN FirstIndex(ladder(b, sp[1])[sp[2]].orders, id)

LevelOf(b, id) ==
    LET sp == StoredAt(b, id)
    IN ladder(b, sp[1])[sp[2]]

C9_Rejects ==
    [][/\ \A id \in Ids : Copies(book', id) <= 1
       /\ IsPlaceStep =>
            LET O == last'.order
                bad == \/ O.qty = 0
                       \/ is_limit(O) /\ O.order_type.price = 0
                       \/ O.id \in RestingIds(book)
            IN /\ O.qty = 0 => last'.err = "InvalidQty"
               /\ O.qty > 0 /\ is_limit(O) /\ O.order_type.price = 0
                    => last'.err = "InvalidPrice"
               /\ O.qty > 0 /\ ~(is_limit(O) /\ O.order_type.price = 0)
                    /\ O.id \in RestingIds(book) => last'.err = "Reject"
               /\ bad => last'.trades = <<>> /\ book' = book
    ]_vars

\* an order that could have traded was rejected for its id
C9_Witness ==
    /\ last.op = "place"
    /\ last.err = "Reject"
    /\ last.order.id \in RestingIds(book)
    /\ is_limit(last.order)
    /\ is_some(best_price(book, opposite(last.order.side)))
    /\ crosses(last.order, unwrap(best_price(book, opposite(last.order.side))))


-----------------------------------------------------------------------------
\* what Simulator::step returned to the driver: the trade list when it is Ok
Returned(o) == [trades |-> o.trades, err |-> o.err]

(* C10. Determinism: two simulators built with the same seed, the same      *)
(* configs, the same mode and the same data-source content, stepped the     *)
(* same number of times, return identical trade sequences (every field of   *)
(* every trade, ts included) and identical snapshots at every matching step *)
(* index.                                                                   *)
C10_Determinism ==
    \A k \in 1..Min(Len(outs[1]), Len(outs[2])) :
        /\ Returned(outs[1][k]) = Returned(outs[2][k])
        /\ outs[1][k].snapshot = outs[2][k].snapshot

\* The two runs differ in nothing but time stamps: with the ts of every trade, the ts
\* of the snapshot and the time of every spread-history entry set aside, what the
\* steps of equal index return is the same.
NoTs(trade) == [maker_id |-> trade.maker_id, taker_id |-> trade.taker_id,
                price |-> trade.price, qty |-> trade.qty]
ApartFromTs(o) ==
    [trades |-> [j \in 1..Len(o.trades) |-> NoTs(o.trades[j])], err |-> o.err,
     snapshot |-> [o.snapshot EXCEPT !.ts = 0,
                                     !.recent_spreads = [j \in 1..Len(@) |-> @[j][2]]]]
SameApartFromTs ==
    \A k \in 1..Min(Len(outs[1]), Len(outs[2])) :
        ApartFromTs(outs[1][k]) = ApartFromTs(outs[2][k])

-----------------------------------------------------------------------------
\* a trade list without its time stamps
Unstamped(trades) == [j \in 1..Len(trades) |-> NoTs(trades[j])]

(* C11. Reset and rerun: running a seeded simulator for n steps from an     *)
(* empty book, calling reset(), and running n steps again yields a second   *)
(* trade list equal element-wise to the first.  The property is stated with *)
(* the time stamps of the trades set aside, which the wall clock alone      *)
(* makes differ: once the second run has made as many steps as the first,   *)
(* its trades are, maker, taker, price and quantity, those of the first.    *)
C11_ResetRerun ==
    (ran.reset /\ ran.again = ran.steps) => Unstamped(ran.second) = Unstamped(ran.first)

-----------------------------------------------------------------------------
(* C12. In the step driver the snapshot broadcast for a tick is taken from  *)
(* exactly the simulator state that tick's step() left behind: no client    *)
(* command (place_test_order, reset_metrics) is applied between a tick's    *)
(* step and that tick's snapshot.  Whenever the loop has broadcast and is   *)
(* about to step again, the snapshot it sent is the one of the state the    *)
(* last successful step left.                                               *)
C12_SnapshotOfStep ==
    (srv.pc = "step" /\ is_some(srv.sent)) => unwrap(srv.sent) = unwrap(srv.left)

-----------------------------------------------------------------------------
\* a call on the simulator has returned
Called == did.op \in {"step", "place_order"}

\* new is old, or old with one entry appended, the oldest entry of a full old removed
Extends(old, new) ==
    \/ new = old
    \/ /\ new /= <<>>
       /\ Len(old) < 400 => new = Append(old, new[Len(new)])
       /\ Len(old) >= 400 => new = Append(Tail(old), new[Len(new)])

(* C13. After any sequence of step() and place_order() calls the spread     *)
(* history holds at most 400 entries; an entry appended to a full history   *)
(* removes the oldest one and the remaining entries keep their order.       *)
C13_SpreadHistory ==
    Called => /\ Len(sim.recent_spreads) <= 400
              /\ Extends(did.was.recent_spreads, sim.recent_spreads)

\* an entry was appended to a history of 400
C13_Witness ==
    /\ Called
    /\ Len(did.was.recent_spreads) = 400
    /\ sim.recent_spreads /= did.was.recent_spreads

-----------------------------------------------------------------------------
\* the quantity and the notional of a list of trades
RECURSIVE TradedQty(_)
TradedQty(trades) == IF trades = <<>> THEN 0 ELSE Head(trades).qty + TradedQty(Tail(trades))
RECURSIVE TradedNotional(_)
TradedNotional(trades) ==
    IF trades = <<>> THEN 0
    ELSE (Head(trades).qty * Head(trades).price) + TradedNotional(Tail(trades))

\* metrics m2 are metrics m1 with the trades booked from the taker's perspective
TakerBooked(m1, m2, trades, taker_side) ==
    IF taker_side = "Buy"
    THEN /\ m2.inventory = m1.inventory + TradedQty(trades)
         /\ m2.cash = m1.cash - TradedNotional(trades)
    ELSE /\ m2.inventory = m1.inventory - TradedQty(trades)
         /\ m2.cash = m1.cash + TradedNotional(trades)

\* the event a Historical step made on s replays, and the side of the order it
\* submits for it
ReplayedEvent(s) == next_event(unwrap(s.data_source)).event
Replays(s) ==
    /\ s.mode = "Historical"
    /\ answer(s) = "Some"
    /\ ReplayedEvent(s).kind \in {"OrderPlacement", "Trade"}
ReplayedSide(event) == IF event.kind = "OrderPlacement" THEN event.order.side ELSE event.side

(* C14. For every trade produced by an order the simulator submits, metrics *)
(* are updated from the taker's perspective: a Buy taker adds trade.qty to  *)
(* inventory and takes qty*price from cash, a Sell taker takes trade.qty    *)
(* from inventory and adds qty*price to cash.  Stated for the calls that    *)
(* submit one order: a manual place_order, and a Historical step replaying  *)
(* a placement or a trade.                                                  *)
C14_TakerPerspective ==
    /\ (did.op = "place_order" /\ did.err = "")
           => TakerBooked(did.was.metrics, sim.metrics, did.trades, did.order.side)
    /\ (did.op = "step" /\ Replays(did.was))
           => TakerBooked(did.was.metrics, sim.metrics, did.trades,
                          ReplayedSide(ReplayedEvent(did.was)))

-----------------------------------------------------------------------------
\* the last call submitted one order, it traded, and metrics were updated for its trades
UpdatedForOrder ==
    /\ did.trades /= <<>>
    /\ \/ did.op = "place_order"
       \/ did.op = "step" /\ Replays(did.was)

(* C15. Immediately after the simulator updates metrics for the trades of   *)
(* an order, pnl = cash + inventory * mid if the book has a mid price at    *)
(* that moment, and pnl = cash if it has none (one side empty).             *)
C15_Pnl ==
    UpdatedForOrder =>
        sim.metrics.pnl = IF is_some(mid_ticks(sim.engine))
                          THEN sim.metrics.cash
                               + (sim.metrics.inventory * unwrap(mid_ticks(sim.engine)))
                          ELSE sim.metrics.cash

-----------------------------------------------------------------------------
\* the order a Historical step made on s gives the engine, and the error, if any, the
\* engine answers it with
ReplayedOrder(s, event) ==
    IF event.kind = "OrderPlacement" THEN event.order
    ELSE new_market(s.next_order_id, event.side, event.qty, s.current_time)
Faced(s) == place(s.engine, ReplayedOrder(s, ReplayedEvent(s)), s.current_time).err

Recoverable == {"UnknownOrder", "Reject", "NoLiquidity"}
NonRecoverable == {"InvalidPrice", "InvalidQty", "InternalError"}

(* C16. In every simulation mode: when an engine call made during step()    *)
(* fails with a recoverable error (UnknownOrder, Reject, NoLiquidity) the   *)
(* step continues and returns Ok, and when it fails with a non-recoverable  *)
(* error (InvalidPrice, InvalidQty, InternalError) step() stops and returns *)
(* that error.  No step returns a recoverable error, and a Historical step  *)
(* returns Ok or the error according to what the engine answered the        *)
(* replayed order with.                                                     *)
C16_EngineErrors ==
    did.op = "step" =>
        /\ did.err \notin Recoverable
        /\ Replays(did.was) =>
            /\ Faced(did.was) \in Recoverable => did.err = ""
            /\ Faced(did.was) \in NonRecoverable => did.err = Faced(did.was)

-----------------------------------------------------------------------------
\* the last call was a step in Historical mode that the data source answered with an
\* error
DataErrorStep == did.op = "step" /\ did.was.mode = "Historical" /\ answer(did.was) = "Err"

(* C17. In Historical mode, when the data source's next_event returns an    *)
(* error during step(), that step returns Ok with no trades and the mode    *)
(* becomes Synthetic; every later step runs the synthetic generators (it    *)
(* does not read the data source) and the mode never returns to Historical  *)
(* unless set_mode is called.                                               *)
C17_DataErrorFallback ==
    /\ DataErrorStep => (did.err = "" /\ did.trades = <<>> /\ sim.mode = "Synthetic")
    /\ did.fell => sim.mode = "Synthetic"
    /\ (did.fell /\ did.op = "step" /\ ~DataErrorStep)
           => (did.was.mode = "Synthetic" /\ sim.data_source = did.was.data_source)

\* a step was made after the step that met the data source error
C17_Witness == did.fell /\ did.op = "step" /\ ~DataErrorStep

-----------------------------------------------------------------------------
\* the last two calls on the data source were next_event, and the first of them
\* failed the validation of its record
AfterValidationError ==
    /\ got.op = "next_event"
    /\ got.before.op = "next_event"
    /\ got.before.result = "ValidationError"

(* C18. When next_event fails on a record (validation failure) the data     *)
(* source is not advanced past that record: a following next_event call,    *)
(* with no seek or reset in between, meets the same bad record again        *)
(* rather than the record after it.                                         *)
C18_NotAdvanced ==
    AfterValidationError => (got.at = got.before.at /\ got.result = "ValidationError")

-----------------------------------------------------------------------------
\* the row after the one that failed validation is there and is valid
ValidRowFollows ==
    /\ got.before.at < Len(csv.file)
    /\ csv.file[got.before.at + 1].form = "valid"

(* C19. When next_event returns a validation error for a row,               *)
(* current_position() is the same as before the call and is_finished()      *)
(* stays false, and a later next_event call returns the next valid row of   *)
(* the file normally.                                                       *)
C19_ValidationError ==
    /\ (got.op = "next_event" /\ got.result = "ValidationError")
           => (csv.current_position = got.was.current_position /\ ~csv.finished)
    /\ (AfterValidationError /\ ValidRowFollows)
           => /\ got.result = "Some"
              /\ got.at = got.before.at + 1
              /\ csv.current_position = Some(csv.file[got.at].ts)

\* a valid row was returned by the call after a validation error, the position before
\* the error being that of an earlier row
C19_Witness ==
    /\ AfterValidationError
    /\ got.result = "Some"
    /\ got.n = MaxReads
    /\ is_some(got.was.current_position)

-----------------------------------------------------------------------------
\* the rows of file that are valid and have a time stamp of t or more
ValidFrom(file, t) == { i \in 1..Len(file) : file[i].form = "valid" /\ file[i].ts >= t }
\* the rows of file that parse and have a time stamp of t or more
ParsedFrom(file, t) == { i \in 1..Len(file) : parses(file[i]) /\ file[i].ts >= t }

(* C20. After seek_to_time(t) succeeds, the next event returned by          *)
(* next_event has ts >= t and is the first record in file order whose       *)
(* ts >= t; when no record of the file has ts >= t, seek_to_time fails with *)
(* SeekFailed.  The next event returned is the first one a next_event call  *)
(* returns after the seek, calls that fail set aside, and the records are   *)
(* the rows that make an event.                                             *)
C20_Seek ==
    /\ (got.op = "next_event" /\ got.result = "Some" /\ is_some(got.before.sought))
           => /\ csv.file[got.at].ts >= unwrap(got.before.sought)
              /\ got.at = MinOf(ValidFrom(csv.file, unwrap(got.before.sought)))
    /\ (got.op = "seek_to_time" /\ ParsedFrom(csv.file, got.target) = {})
           => got.result = "SeekFailed"

-----------------------------------------------------------------------------
\* the quantity the trades took from maker id
TakenFrom(trades, id) == SumQty(SelectSeq(trades, LAMBDA t : t.maker_id = id))

\* the step is a match_against call on the level
IsMatchStep == lvlLast.op = "idle" /\ lvlLast'.op = "match_against"

-----------------------------------------------------------------------------
\* the step is a cancel call on the level for an id it does not store
IsCancelAbsent ==
    /\ lvlLast.op = "idle"
    /\ lvlLast'.op = "cancel"
    /\ lvlLast'.id \notin IdsOf(lvl.orders)

-----------------------------------------------------------------------------
\* the last two calls on the data source were next_event and each returned an event,
\* the second later in time than the first, the source not paused
ConsecutiveEvents ==
    /\ got.op = "next_event" /\ got.result = "Some"
    /\ got.before.op = "next_event" /\ got.before.result = "Some"
    /\ ~got.was.paused
    /\ csv.file[got.before.at].ts < csv.file[got.at].ts

(* C21. Playback timing: with the source not paused, for every pair of      *)
(* consecutive events with timestamps t1 < t2 the wait next_event performs  *)
(* before returning the second event is (t2 - t1) / playback_speed, so      *)
(* setting the playback speed to m divides every inter-event wait by m.     *)
C21_PlaybackWait ==
    ConsecutiveEvents =>
        got.slept * got.was.playback_speed = csv.file[got.at].ts - csv.file[got.before.at].ts

-----------------------------------------------------------------------------
\* what k successive next_event calls on source c return: the result of each and the
\* row it is the event of
RECURSIVE Results(_, _)
Following(r, k) == <<[result |-> r.result, at |-> r.at]>> \o Results(r.source, k - 1)
Results(c, k) == IF k = 0 THEN <<>> ELSE Following(csv_next_event(c, 0), k)

(* C22. After reset() on a data source in any state (mid-file, finished,    *)
(* after a failed read), is_finished() is false, current_position() is      *)
(* None, and the sequence of results returned by successive next_event      *)
(* calls equals the sequence returned by a newly opened source on the same  *)
(* file.                                                                    *)
C22_Reset ==
    got.op = "reset" =>
        /\ ~csv.finished
        /\ csv.current_position = None
        /\ Results(csv, MaxRows + 2) = Results(CsvDataSource_new(csv.file), MaxRows + 2)

\* a source that had read a row past a failed read and reached the end of its file
\* was reset
C22_Witness ==
    /\ got.op = "reset"
    /\ got.was.finished
    /\ got.before.op = "next_event"
    /\ \E i \in 2..Len(csv.file) : ~parses(csv.file[i]) \/ ~validates(csv.file[i])

-----------------------------------------------------------------------------
\* the last call was a next_event that read a row which makes an event earlier in time
\* than the event returned before it
OutOfOrderRead ==
    /\ got.op = "next_event"
    /\ got.at > 0
    /\ csv.file[got.at].form = "valid"
    /\ is_some(got.was.last_timestamp)
    /\ csv.file[got.at].ts < unwrap(got.was.last_timestamp)

(* C28. When next_event reads an event whose timestamp is smaller than the  *)
(* timestamp of the previously returned event, the out-of-order timestamp   *)
(* is surfaced to the caller as a warning-class error (InvalidTimestamp)    *)
(* rather than the event being returned as if it were in order.             *)
C28_OutOfOrder ==
    OutOfOrderRead => got.result = "InvalidTimestamp"

-----------------------------------------------------------------------------
\* C26: across successive step() calls in any mode the simulator's logical clock
\* never decreases: the ts of the snapshot taken after a step is at least the ts of
\* the snapshot taken after the step before it (no call but step moves the clock).
C26_ClockMonotonic ==
    (did.op = "step" /\ did.was /= Unbuilt) =>
        snapshot(sim).ts >= snapshot(did.was).ts

-----------------------------------------------------------------------------
\* the event the step made on s pulls from the data source
pulled(s) == next_event(unwrap(s.data_source)).event

\* a Historical step that pulled an event: nothing but the event touches the book
IsReplayStep ==
    /\ did.op = "step"
    /\ did.was /= Unbuilt
    /\ did.was.mode = "Historical"
    /\ answer(did.was) = "Some"

\* the book an order-affecting event ev is to leave, b being the book before it and
\* id the id the simulator gives the market order of a Trade
forwarded(b, ev, id, now) ==
    IF ev.kind = "OrderPlacement" THEN place(b, ev.order, now).book
    ELSE IF ev.kind = "OrderCancellation" THEN engine_cancel(b, ev.order_id, now).book
    ELSE IF ev.kind = "OrderModification"
    THEN modify(b, ev.order_id, ev.new_qty, ev.new_price, now).book
    ELSE IF ev.kind = "Trade"
    THEN place(b, new_market(id, ev.side, ev.qty, ev.timestamp), now).book
    ELSE b

\* C27: an event pulled from the data source reaches the engine if and only if it
\* is order-affecting: an OrderPlacement is placed, an OrderCancellation cancelled,
\* an OrderModification applied as a modify of that order, a Trade applied; any other
\* event leaves the book and the metrics as they were.
C27_Forwarded ==
    IsReplayStep =>
        /\ sim.engine = forwarded(did.was.engine, pulled(did.was), did.was.next_order_id,
                                  now_ns)
        /\ pulled(did.was).kind \notin
               {"OrderPlacement", "OrderCancellation", "OrderModification", "Trade"}
           => (sim.engine = did.was.engine /\ sim.metrics = did.was.metrics)

-----------------------------------------------------------------------------
\* the commands handle_client_message knows, as JSON and as text
KnownCommands == {"get_health", "reset_metrics", "set_simulation_speed", "place_test_order"}
KnownWords == {"ping", "status", "help"}

\* the message is empty, too long, not a JSON command, or an unknown command
MustBeRejected(message) ==
    \/ message.blank
    \/ message.bytes > MaxMessageBytes
    \/ ~is_some(message.json) /\ to_lowercase(message.text) \notin KnownWords
    \/ is_some(message.json) /\ ~is_some(as_str(unwrap(message.json).command))
    \/ is_some(message.json) /\ is_some(as_str(unwrap(message.json).command))
           /\ unwrap(as_str(unwrap(message.json).command)) \notin KnownCommands

\* C23: handle_client_message returns an error for every empty message, every
\* message longer than 10,000 bytes, every malformed payload and every unknown
\* command; a message that is rejected leaves the simulator as it was.
C23_Rejects ==
    [][srv'.heard.n = srv.heard.n + 1 =>
           /\ MustBeRejected(unwrap(srv'.heard.message)) => srv'.heard.err /= ""
           /\ srv'.heard.err /= "" => srv'.sim = srv.sim]_vars

-----------------------------------------------------------------------------
\* the failures in a row that end with step i of the log, counted from the last Ok
\* step or the last firing of the recovery hook
Longer(run, ok) ==
    IF ok THEN 0 ELSE IF run = MAX_CONSECUTIVE_ERRORS THEN 1 ELSE run + 1
RECURSIVE Run(_, _)
Run(log, i) == IF i = 0 THEN 0 ELSE Longer(Run(log, i - 1), log[i].ok)

\* C24: the recovery hook fires exactly when 10 step() calls in a row have failed
\* with no successful step between them; a successful step sets the count to 0, the
\* count starts from 0 again after the hook has fired, and the loop goes to its next
\* tick after a failure.
C24_Recovery ==
    /\ \A i \in 1..Len(srv.log) :
           srv.log[i].fired <=> Run(srv.log, i) = MAX_CONSECUTIVE_ERRORS
    /\ srv.consecutive_errors = Run(srv.log, Len(srv.log)) % MAX_CONSECUTIVE_ERRORS
    /\ (srv.log /= <<>> /\ ~srv.log[Len(srv.log)].ok) => srv.pc = "step"

\* the hook has fired twice, and a run of failures was cut short by an Ok step
C24_Witness ==
    /\ Cardinality({i \in 1..Len(srv.log) : srv.log[i].fired}) = 2
    /\ srv.consecutive_errors > 0
    /\ \E i \in 2..Len(srv.log) : srv.log[i].ok /\ ~srv.log[i - 1].ok

-----------------------------------------------------------------------------
-----------------------------------------------------------------------------
\* the ts of the orders resting at the level
RestingTs(l) == {l.orders[i].ts : i \in 1..Len(l.orders)}

\* C31: after any sequence of enqueue, cancel and match_against calls,
\* oldest_order_ts() is the smallest ts among the orders resting at the level, and
\* it is None if and only if the level is empty.
C31_OldestTs ==
    /\ oldest_order_ts(lvl) = None <=> is_empty(lvl)
    /\ ~is_empty(lvl) =>
           \A ts \in RestingTs(lvl) : unwrap(oldest_order_ts(lvl)) <= ts

-----------------------------------------------------------------------------
\* a Synthetic step was made: its market maker quoted on the simulator with the
\* clock advanced
IsSyntheticStep == did.op = "step" /\ did.was /= Unbuilt /\ did.was.mode = "Synthetic"
Quoting == clocked(did.was)
Quotes == generate_market_making_orders(Quoting).orders
BidsOf(orders) == {i \in 1..Len(orders) : orders[i].side = "Buy"}
AsksOf(orders) == {i \in 1..Len(orders) : orders[i].side = "Sell"}

\* C32: the market maker returns at most one bid followed by at most one ask, both
\* limit orders of size order_size with a price above 0; a bid only if inventory <
\* max_inventory and there is no best bid or the bid's price is above it; an ask only
\* if inventory > -max_inventory and there is no best ask or the ask's price is below it.
C32_MarketMaker ==
    IsSyntheticStep =>
        /\ Cardinality(BidsOf(Quotes)) <= 1
        /\ Cardinality(AsksOf(Quotes)) <= 1
        /\ \A i \in BidsOf(Quotes), j \in AsksOf(Quotes) : i < j
        /\ \A i \in 1..Len(Quotes) :
               /\ Quotes[i].order_type.kind = "Limit"
               /\ Quotes[i].order_type.price > 0
               /\ Quotes[i].qty = Quoting.market_maker_config.order_size
        /\ \A i \in BidsOf(Quotes) :
               /\ Quoting.metrics.inventory < Quoting.market_maker_config.max_inventory
               /\ \/ ~is_some(best_bid(Quoting.engine))
                  \/ Quotes[i].order_type.price > unwrap(best_bid(Quoting.engine))
        /\ \A i \in AsksOf(Quotes) :
               /\ Quoting.metrics.inventory > 0 - Quoting.market_maker_config.max_inventory
               /\ \/ ~is_some(best_ask(Quoting.engine))
                  \/ Quotes[i].order_type.price < unwrap(best_ask(Quoting.engine))

\* the market maker quoted an ask below the best ask and no bid, the book having both
C32_Witness ==
    /\ IsSyntheticStep
    /\ AsksOf(Quotes) /= {}
    /\ BidsOf(Quotes) = {}
    /\ is_some(best_bid(Quoting.engine))
    /\ is_some(best_ask(Quoting.engine))

-----------------------------------------------------------------------------
\* a Synthetic step of the loop is in flight: the clock is advanced and the market
\* maker is to quote on srv.sim
QuotingInFlight == srv.pc = "in_step" /\ srv.sim.mode = "Synthetic"
\* the target prices of the market maker on the simulator s
Targets(s) ==
    target_prices(mid_ticks(s.engine), s.market_maker_config.target_spread \div 2,
                  adjustment_ticks(s.metrics.inventory, s.market_maker_config.inventory_skew))
\* the shift of the targets the inventory calls for: down when long, up when short
Skew(s) == 0 - s.metrics.inventory * s.market_maker_config.inventory_skew

\* C33: when the book has a mid price the market maker's targets are
\* mid - target_spread/2 and mid + target_spread/2, both shifted by
\* -inventory * inventory_skew, for both signs of the inventory.
C33_Skew ==
    (QuotingInFlight /\ is_some(mid_ticks(srv.sim.engine))) =>
        /\ Targets(srv.sim).bid =
               unwrap(mid_ticks(srv.sim.engine))
                   - srv.sim.market_maker_config.target_spread \div 2 + Skew(srv.sim)
        /\ Targets(srv.sim).ask =
               unwrap(mid_ticks(srv.sim.engine))
                   + srv.sim.market_maker_config.target_spread \div 2 + Skew(srv.sim)

-----------------------------------------------------------------------------
\* the step after the loop over the market maker's orders, and the taker order it
\* generates next (a sequence of at most one order)
Made == submit_generated(generate_market_making_orders(Quoting), <<>>, now_ns)
TakerOrders == generate_market_taker_order(Made.sim).order

\* C34: every Synthetic step generates between zero and two market-maker orders
\* followed by exactly one market-taker order, whatever the state of the book (the
\* steps that a failed market-maker order has ended are left aside).
C34_OneTaker ==
    (IsSyntheticStep /\ Made.err = "") =>
        /\ Len(Quotes) <= 2
        /\ Len(TakerOrders) = 1

-----------------------------------------------------------------------------
\* the market maker's call of the step, the simulator once the latency of its first
\* order is sampled, and the simulator once that order has gone through the loop
Generated == generate_market_making_orders(Quoting)
Delayed == simulate_network_latency(Generated.sim)
AfterFirst == send(Delayed, <<Quotes[1]>>, <<>>, now_ns).sim
\* the drop coin fired for the first order the step generated
FirstDropped ==
    /\ IsSyntheticStep
    /\ Quotes /= <<>>
    /\ should_drop(Delayed.net, Delayed.rng).drop

\* C35: when the drop coin fires for a generated order the order is not placed: the
\* book, the metrics and the spread history are as they were, the clock has advanced
\* by the sampled latency and the order-id counter stays past the order's id.
C35_Dropped ==
    FirstDropped =>
        /\ AfterFirst.engine = Generated.sim.engine
        /\ AfterFirst.metrics = Generated.sim.metrics
        /\ AfterFirst.recent_spreads = Generated.sim.recent_spreads
        /\ AfterFirst.current_time =
               Generated.sim.current_time
                   + simulate_latency(Generated.sim.net, Generated.sim.rng).latency
        /\ AfterFirst.next_order_id = Quoting.next_order_id + Len(Quotes)
        /\ Quotes[1].id \notin DOMAIN sim.engine.index

\* the coin fired for the first order of a step that generated two
C35_Witness == FirstDropped /\ Len(Quotes) = 2

-----------------------------------------------------------------------------
\* C36: a step() appends an entry to the spread history if and only if at least one
\* trade occurred in that step; the entry is (logical clock at the end of the step,
\* current spread), and one entry is appended per such step (the oldest is evicted
\* beyond the capacity).
C36_HistoryIffTrade ==
    (did.op = "step" /\ did.was /= Unbuilt /\ did.err = "") =>
        IF did.trades /= <<>>
        THEN /\ is_some(spread(sim.engine))
             /\ sim.recent_spreads =
                    push_capped(did.was.recent_spreads,
                                <<sim.current_time, unwrap(spread(sim.engine))>>)
        ELSE sim.recent_spreads = did.was.recent_spreads

-----------------------------------------------------------------------------
\* the orders the market maker of a Synthetic step made on s generates
NextQuotes(s) == generate_market_making_orders(clocked(s)).orders

\* C37: every order the simulator submits carries an id different from the id of
\* every order resting in the book, and the ids handed out by next_order_id are
\* never reused, including after reset(): over any call the counter does not go
\* back, and the orders a Synthetic step generates have ids that rest nowhere.
C37_FreshIds ==
    [][sim /= Unbuilt =>
           /\ sim'.next_order_id >= sim.next_order_id
           /\ (sim.mode = "Synthetic" /\ ran'.steps + ran'.again > ran.steps + ran.again) =>
                  \A i \in 1..Len(NextQuotes(sim)) :
                      NextQuotes(sim)[i].id \notin RestingIds(sim.engine)]_vars

\* C38: a step whose orders traded, changing the metrics, returns Ok and its result
\* holds the trades, also when a later order of the same step fails
C38_TradesReported ==
    (did.op = "step" /\ did.was /= Unbuilt /\ sim.metrics /= did.was.metrics) =>
        /\ did.err = ""
        /\ did.trades /= <<>>

\* some tasks wait, each for a lock one of them holds
Deadlocked ==
    \E D \in (SUBSET Tasks) \ {{}} :
        \A t \in D : \E lock \in Locks : InQueue(t, lock) /\ \E u \in D : lock \in tasks.guards[u]

\* C39: no task waits for one of the two locks while it holds the other, the driver
\* loop and the command handlers never deadlock, and a command handler that waits
\* for the simulator gate gets it in the end
C39_NoDeadlock ==
    /\ [](\A t \in Tasks : Waiting(t) => tasks.guards[t] = {})
    /\ [](~Deadlocked)
    /\ \A h \in Handlers :
           InQueue(h, "simulator") ~> ("simulator" \in tasks.guards[h])
\* reached: the loop holds the simulator gate and every handler waits for it
C39_Witness ==
    /\ "simulator" \in tasks.guards[0]
    /\ Len(tasks.waiters["simulator"]) = NumHandlers

\* the last n items of a sequence
LastOf(seq, n) == SubSeq(seq, Len(seq) - n + 1, Len(seq))

\* C40: after any pushes, shrink_to and clear on a buffer of any capacity, 0 included,
\* len() <= capacity() and the buffer holds the items pushed last, in the order they
\* were pushed
C40_Bounded ==
    cb.buffer /= Unbuilt =>
        /\ len(cb.buffer) <= capacity(cb.buffer)
        /\ len(cb.buffer) <= Len(cb.pushed)
        /\ to_vec(cb.buffer) = LastOf(cb.pushed, len(cb.buffer))

=============================================================================
